---- MODULE Spec2Model ----
(***************************************************************************)
(* Vesting accounting engine of the repository, as deployed contracts:     *)
(*   "Lin"  PlasmaticVesting (linear / custom list)                        *)
(*          src/remix-contracts/PlasmaticVesting.sol                       *)
(*   "Step" PlasmaticVesting (equal split, step release)                   *)
(*          src/unnamed/part_003, second contract of the file              *)
(*   "VF"   VestingFactory (months, linear / step)                         *)
(*          src/next.config.ts, first contract of the file                 *)
(*   "Factory" VestingFactory (seconds, revocable, owned)                  *)
(*          src/next.config.ts, second contract of the file; it is the     *)
(*          contract of FactorySpec, where nextScheduleId, schedules and   *)
(*          userSchedules hold its totalVestings, vestingSchedules and     *)
(*          userVestings                                                   *)
(* Token lockers, each the contract of a specification of its own:         *)
(*   "LockerV1" PlasmaticTokenLockerV1 (pure timelock)                     *)
(*          src/remix-contracts/PlasmaticTokenLockerV1.sol                 *)
(*   "Locker" TokenLocker (lock with cliff)                                *)
(*          src/remix-contracts/TokenLocker.sol, first contract            *)
(*   "Legacy" TokenLocker (owned), src/remix-contracts/TokenLocker.sol,    *)
(*          second contract, and "Liquidity" LiquidityLocker,              *)
(*          src/unnamed/part_001; nextLockId and ownerLocks hold their     *)
(*          totalLocks and userLocks                                       *)
(* and the React hook useMyLocks                                           *)
(*          src/src/app/tools/token-locker/my-lock/useMyLocks.ts           *)
(* One behaviour is the life of one deployed contract: Init chooses which. *)
(* A transaction that reverts leaves the storage as it was; only lastCall, *)
(* the receipt of the most recent transaction of the block, records it.    *)
(* Amounts and times stay far below 2^256, so of the checked arithmetic    *)
(* only underflow of a subtraction can be reached and is modelled.         *)
(***************************************************************************)
EXTENDS Integers, Sequences, FiniteSets, TLC

VARIABLES
    deployed,         \* which contract this behaviour is about
    now,              \* block.timestamp
    nextScheduleId,   \* uint256 public nextScheduleId
    schedules,        \* mapping(uint256 => Schedule)
    customReleases,   \* mapping(uint256 => CustomRelease[])
    userSchedules,    \* mapping(address => uint256[])
    beneficiaryVestings, \* mapping(address => uint256[]) of the factory
    paid,             \* token ledger: amount paid to the beneficiary per schedule
    refunded,         \* token ledger: amount returned to the creator per schedule
    balance,          \* token ledger: the contract's balance of the token
    lastCall,         \* log of the last committed transaction of the block
    stack,            \* call frames of the transaction in progress
    nextLockId,       \* uint256 public nextLockId
    locks,            \* mapping(uint256 => LockInfo)
    ownerLocks,       \* mapping(address => uint256[])
    ownerIndex,       \* mapping(uint256 => uint256)
    lockedBalances,   \* mapping(address => mapping(address => uint256))
    address,          \* useAccount().address
    client,           \* usePublicClient()
    runs,             \* the run() calls of the effect that have not completed
    myLocks,          \* useState: locks
    loading,          \* useState: loading
    error             \* useState: error

\* storage of the token lockers
lockerVars == <<nextLockId, locks, ownerLocks, ownerIndex, lockedBalances>>

\* state of the useMyLocks hook
hookVars == <<address, client, runs, myLocks, loading, error>>

vars == <<deployed, now, nextScheduleId, schedules, customReleases,
          userSchedules, beneficiaryVestings, paid, refunded, balance, lastCall,
          stack, lockerVars, hookVars>>

----------------------------------------------------------------------------
\* Bounds of the model

MaxSchedules == 2
MaxAmount == 2
MaxMonths == 2
TicksPerMonth == 1
MaxTicks == 2

\* the largest value of a machine word: uint256 narrowed to what the
\* integers of the checker hold; Spec and VestingSpec stay far below it
WordMax == 1000000000

\* bounds of VestingSpec, where one creation is followed by the passage of time
MaxBatch == 3
VestMaxAmount == 7
VestMaxMonths == 3
VestTicksPerMonth == 2

----------------------------------------------------------------------------
\* Program constants and input domains

SECONDS_PER_MONTH == 30 * 24 * 60 * 60

MAX_RECIPIENTS == 20

TickStep == SECONDS_PER_MONTH \div TicksPerMonth

ZERO == "0x0"
TOKEN == "token"
Users == {"alice", "bob"}
Creators == {"alice"}
Addresses == Users \cup {ZERO}
Ids == 1..MaxBatch
Amounts == 0..MaxAmount
Months == 0..MaxMonths
TransferResults == {"ok", "false", "throw"}

Contracts == {"Lin", "Step", "VF"}

NoCall ==
    [op |-> "none", id |-> 0, amount |-> 0, events |-> <<>>, trace |-> <<>>]

RECURSIVE SumAmounts(_)
SumAmounts(rs) ==
    IF rs = <<>> THEN 0 ELSE rs[1].amount + SumAmounts(Tail(rs))

\* checked arithmetic of Solidity 0.8: a subtraction below zero panics
Ok(v) == [panic |-> FALSE, value |-> v]

Panic == [panic |-> TRUE, value |-> 0]

CheckedSub(a, b) == IF a < b THEN Panic ELSE Ok(a - b)

\* the outcome of a transaction that reverts: the storage as it was, no event
Revert(status) ==
    [status |-> status, nextScheduleId |-> nextScheduleId, schedules |-> schedules,
     customReleases |-> customReleases, userSchedules |-> userSchedules,
     amount |-> 0, events |-> <<>>, trace |-> <<>>]

\* what a failed call of the token through the plain IERC20 interface gives
TransferError(tok) == IF tok = "false" THEN "TransferFailed" ELSE "TokenReverted"

Event(name, id, amount, remaining) ==
    [name |-> name, id |-> id, amount |-> amount, remaining |-> remaining]

----------------------------------------------------------------------------
\* PlasmaticVesting (linear / custom)

\* fault injection: the amounts of a custom list are not summed up
createScheduleCheckNoSum(token, beneficiary, totalAmount, cliffMonths, durationMonths, rs) ==
    IF token = ZERO \/ beneficiary = ZERO \/ totalAmount = 0 THEN "InvalidParams"
    ELSE IF Len(rs) = 0
    THEN IF durationMonths = 0 \/ durationMonths <= cliffMonths
         THEN "InvalidSchedule" ELSE "ok"
    ELSE IF \E i \in 1..Len(rs) :
              rs[i].claimed \/ (i > 1 /\ rs[i].timestamp <= rs[i - 1].timestamp)
         THEN "InvalidCustomSchedule"
    ELSE "ok"

\* the checks of createSchedule before the token is pulled
createScheduleCheck(token, beneficiary, totalAmount, cliffMonths, durationMonths, rs) ==
    IF token = ZERO \/ beneficiary = ZERO \/ totalAmount = 0 THEN "InvalidParams"
    ELSE IF Len(rs) = 0
    THEN IF durationMonths = 0 \/ durationMonths <= cliffMonths
         THEN "InvalidSchedule" ELSE "ok"
    ELSE IF \E i \in 1..Len(rs) :
              rs[i].claimed \/ (i > 1 /\ rs[i].timestamp <= rs[i - 1].timestamp)
         THEN "InvalidCustomSchedule"
    ELSE IF SumAmounts(rs) # totalAmount THEN "InvalidCustomSchedule"
    ELSE "ok"

\* fault injection: the bool returned by transferFrom is not looked at
createSchedulePullUnchecked(tok, created) ==
    IF tok = "throw" THEN Revert("TokenReverted") ELSE created

\* the pull of the funds: a false return reverts with TransferFailed, a
\* throwing token reverts the call, a true return lets the creation go on
createSchedulePull(tok, created) ==
    IF tok # "ok" THEN Revert(TransferError(tok)) ELSE created

createSchedule(caller, token, beneficiary, totalAmount, cliffMonths, durationMonths, rs, tok) ==
    LET check == createScheduleCheck(token, beneficiary, totalAmount,
                                     cliffMonths, durationMonths, rs)
        scheduleId == nextScheduleId + 1
        afterCaller == [userSchedules EXCEPT ![caller] = Append(@, scheduleId)]
        afterBoth == [afterCaller EXCEPT ![beneficiary] = Append(@, scheduleId)]
    IN  IF check # "ok" THEN Revert(check)
        ELSE createSchedulePull(tok,
             [status |-> "ok",
              nextScheduleId |-> scheduleId,
              schedules |-> [schedules EXCEPT ![scheduleId] =
                  [token |-> token, beneficiary |-> beneficiary,
                   totalAmount |-> totalAmount, released |-> 0, start |-> now,
                   cliffMonths |-> cliffMonths, durationMonths |-> durationMonths,
                   isActive |-> TRUE]],
              customReleases |-> [customReleases EXCEPT ![scheduleId] =
                  [i \in 1..Len(rs) |->
                      [timestamp |-> rs[i].timestamp, amount |-> rs[i].amount,
                       claimed |-> FALSE]]],
              userSchedules |-> afterBoth,
              amount |-> totalAmount,
              events |-> <<Event(IF Len(rs) = 0 THEN "ScheduleCreated"
                                 ELSE "CustomScheduleCreated",
                                 scheduleId, totalAmount, 0)>>,
              trace |-> <<"call:transferFrom", "sstore:nextScheduleId",
                          "sstore:schedule", "sstore:userSchedules">>
                        \o [i \in 1..Len(rs) |-> "sstore:customReleases"]
                        \o <<IF Len(rs) = 0 THEN "emit:ScheduleCreated"
                             ELSE "emit:CustomScheduleCreated">>])

\* fault injection: the time into the release is counted from the start
linearVestedFromStart(s, t) ==
    LET end == s.start + s.durationMonths * SECONDS_PER_MONTH
    IN  (s.totalAmount * (t - s.start)) \div (end - s.start)

\* the linear release formula between cliff and end
linearVested(s, t) ==
    LET cliffTime == s.start + s.cliffMonths * SECONDS_PER_MONTH
        end == s.start + s.durationMonths * SECONDS_PER_MONTH
        linearDuration == end - cliffTime
        timeInto == t - cliffTime
    IN  (s.totalAmount * timeInto) \div linearDuration

\* fault injection: the loop does not look at the claimed flag
RECURSIVE dueIgnoringClaimed(_, _)
dueIgnoringClaimed(rs, t) ==
    IF rs = <<>> THEN 0
    ELSE (IF rs[1].timestamp <= t THEN rs[1].amount ELSE 0)
         + dueIgnoringClaimed(Tail(rs), t)

\* sum of the entries of a custom list that are due and not yet claimed
RECURSIVE dueUnclaimed(_, _)
dueUnclaimed(rs, t) ==
    IF rs = <<>> THEN 0
    ELSE (IF ~rs[1].claimed /\ rs[1].timestamp <= t THEN rs[1].amount ELSE 0)
         + dueUnclaimed(Tail(rs), t)

\* the amount returned once block.timestamp >= end
claimableAtEnd(s) == CheckedSub(s.totalAmount, s.released)

getClaimableAmountOf(s, rs, t) ==
    IF s.totalAmount = 0 \/ ~s.isActive THEN Ok(0)
    ELSE IF Len(rs) > 0 THEN Ok(dueUnclaimed(rs, t))
    ELSE LET cliffTime == s.start + s.cliffMonths * SECONDS_PER_MONTH
             end == s.start + s.durationMonths * SECONDS_PER_MONTH
             vested == linearVested(s, t)
         IN  IF t < cliffTime THEN Ok(0)
             ELSE IF t >= end THEN claimableAtEnd(s)
             ELSE IF vested <= s.released THEN Ok(0)
             ELSE Ok(vested - s.released)

getClaimableAmount(scheduleId) ==
    getClaimableAmountOf(schedules[scheduleId], customReleases[scheduleId], now)

\* checked arithmetic of Solidity 0.8: a product or a sum above the word panics
MulOverflows(a, b) == b # 0 /\ a > WordMax \div b

AddOverflows(a, b) == a > WordMax - b

\* whether the view reverts: the checked operations it meets, in its order
getClaimableAmountFails(s, rs, t) ==
    IF s.totalAmount = 0 \/ ~s.isActive THEN FALSE
    ELSE IF Len(rs) > 0 THEN dueUnclaimed(rs, t) > WordMax
    ELSE IF MulOverflows(s.cliffMonths, SECONDS_PER_MONTH) THEN TRUE
    ELSE IF AddOverflows(s.start, s.cliffMonths * SECONDS_PER_MONTH) THEN TRUE
    ELSE IF MulOverflows(s.durationMonths, SECONDS_PER_MONTH) THEN TRUE
    ELSE IF AddOverflows(s.start, s.durationMonths * SECONDS_PER_MONTH) THEN TRUE
    ELSE LET cliffTime == s.start + s.cliffMonths * SECONDS_PER_MONTH
             end == s.start + s.durationMonths * SECONDS_PER_MONTH
         IN  IF t < cliffTime THEN FALSE
             ELSE IF t >= end THEN s.totalAmount < s.released
             ELSE MulOverflows(s.totalAmount, t - cliffTime)

\* fault injection: the loop of claim sums the due entries and marks none
markClaimedNone(rs, t) == rs

\* fault injection: the loop of claim stamps the entries it marks
markClaimedStamped(rs, t) ==
    [i \in 1..Len(rs) |->
        IF ~rs[i].claimed /\ rs[i].timestamp <= t
        THEN [rs[i] EXCEPT !.claimed = TRUE, !.timestamp = t] ELSE rs[i]]

\* fault injection: the loop of claim marks every entry, due or not
markClaimedAll(rs, t) == [i \in 1..Len(rs) |-> [rs[i] EXCEPT !.claimed = TRUE]]

\* the custom list after the loop of claim has marked what is due
markClaimed(rs, t) ==
    [i \in 1..Len(rs) |->
        IF ~rs[i].claimed /\ rs[i].timestamp <= t
        THEN [rs[i] EXCEPT !.claimed = TRUE] ELSE rs[i]]

\* one storage write per entry the loop of claim marks
RECURSIVE markTrace(_, _)
markTrace(rs, t) ==
    IF rs = <<>> THEN <<>>
    ELSE (IF ~rs[1].claimed /\ rs[1].timestamp <= t THEN <<"sstore:claimed">> ELSE <<>>)
         \o markTrace(Tail(rs), t)

\* the test that deactivates the schedule, on the storage as claim left it
claimDeactivates(s, amount) == s.released + amount >= s.totalAmount

\* the remaining field of TokensReleased, on the storage as claim left it
claimRemaining(s, amount) == CheckedSub(s.totalAmount, s.released + amount)

\* fault injection: the bool returned by transfer is not looked at
claimTransferUnchecked(tok, rest) ==
    IF tok = "throw" THEN Revert("TokenReverted") ELSE rest

\* the outbound transfer: a false return reverts with TransferFailed, a
\* throwing token reverts the call, a true return lets the claim go on
claimTransfer(tok, rest) ==
    IF tok # "ok" THEN Revert(TransferError(tok)) ELSE rest

claim(caller, scheduleId, tok) ==
    LET s == schedules[scheduleId]
        rs == customReleases[scheduleId]
        isCustom == Len(rs) > 0
        claimable == getClaimableAmount(scheduleId)
        amount == IF isCustom THEN dueUnclaimed(rs, now) ELSE claimable.value
        rs1 == IF isCustom THEN markClaimed(rs, now) ELSE rs
        s1 == IF isCustom THEN s ELSE [s EXCEPT !.released = @ + amount]
        trace1 == IF isCustom THEN markTrace(rs, now) ELSE <<"sstore:released">>
        off == claimDeactivates(s1, amount)
        s2 == IF off THEN [s1 EXCEPT !.isActive = FALSE] ELSE s1
        trace2 == trace1 \o <<"call:transfer">>
                    \o (IF off THEN <<"sstore:isActive">> ELSE <<>>)
        remaining == claimRemaining(s2, amount)
    IN  IF s.totalAmount = 0 THEN Revert("InvalidSchedule")
        ELSE IF caller # s.beneficiary THEN Revert("NotBeneficiary")
        ELSE IF ~isCustom /\ claimable.panic THEN Revert("Panic")
        ELSE IF amount = 0 THEN Revert("NothingToRelease")
        ELSE claimTransfer(tok,
             IF remaining.panic THEN Revert("Panic")
             ELSE [status |-> "ok",
                   nextScheduleId |-> nextScheduleId,
                   schedules |-> [schedules EXCEPT ![scheduleId] = s2],
                   customReleases |-> [customReleases EXCEPT ![scheduleId] = rs1],
                   userSchedules |-> userSchedules,
                   amount |-> amount,
                   events |-> <<Event("TokensReleased", scheduleId, amount,
                                    remaining.value)>>,
                   trace |-> trace2 \o <<"emit:TokensReleased">>])

----------------------------------------------------------------------------
\* PlasmaticVesting (equal split, step release)

\* what a failed call of the token through SafeERC20 gives
SafeTransferError(tok) ==
    IF tok = "false" THEN "SafeERC20FailedOperation" ELSE "TokenReverted"

\* fault injection: the number of recipients has no upper limit
createSchedulesEqualCheckNoMax(token, recipients, totalAmount, durationSeconds, intervalSeconds) ==
    IF token = ZERO \/ totalAmount = 0 THEN "InvalidParams"
    ELSE IF Len(recipients) = 0 THEN "InvalidArrayLength"
    ELSE IF durationSeconds = 0 \/ intervalSeconds = 0
            \/ durationSeconds % intervalSeconds # 0 THEN "InvalidSchedule"
    ELSE "ok"

\* the checks of createSchedulesEqual before the token is pulled
createSchedulesEqualCheck(token, recipients, totalAmount, durationSeconds, intervalSeconds) ==
    IF token = ZERO \/ totalAmount = 0 THEN "InvalidParams"
    ELSE IF Len(recipients) = 0 THEN "InvalidArrayLength"
    ELSE IF Len(recipients) > MAX_RECIPIENTS THEN "TooManyRecipients"
    ELSE IF durationSeconds = 0 \/ intervalSeconds = 0
            \/ durationSeconds % intervalSeconds # 0 THEN "InvalidSchedule"
    ELSE "ok"

\* fault injection: the remainder of the division is given to nobody
equalShareFloor(totalAmount, n, i) == totalAmount \div n

\* the share of the recipient at 0-based index i among n
equalShare(totalAmount, n, i) ==
    (totalAmount \div n) + (IF i < totalAmount % n THEN 1 ELSE 0)

\* the ids pushed to one address by the loop over the recipients: one push
\* for each recipient that is the address, one more for each schedule when
\* the address is the caller
RECURSIVE pushedIds(_, _, _, _)
pushedIds(a, caller, recipients, firstId) ==
    IF recipients = <<>> THEN <<>>
    ELSE (IF recipients[1] = a THEN <<firstId>> ELSE <<>>)
         \o (IF caller = a THEN <<firstId>> ELSE <<>>)
         \o pushedIds(a, caller, Tail(recipients), firstId + 1)

\* fault injection: only the first recipient is compared with address(0)
zeroRecipientFirstOnly(recipients) == recipients[1] = ZERO

\* the loop over the recipients meets address(0) and reverts the transaction
zeroRecipient(recipients) == \E i \in 1..Len(recipients) : recipients[i] = ZERO

\* the pull of the funds through safeTransferFrom
createSchedulesEqualPull(tok, created) ==
    IF tok # "ok" THEN Revert(SafeTransferError(tok)) ELSE created

createSchedulesEqual(caller, token, recipients, totalAmount, cliffSeconds, durationSeconds, intervalSeconds, tok) ==
    LET check == createSchedulesEqualCheck(token, recipients, totalAmount,
                                           durationSeconds, intervalSeconds)
        n == Len(recipients)
        startTs == now
        cliffEnd == startTs + cliffSeconds
        idOf(i) == nextScheduleId + i
    IN  IF check # "ok" THEN Revert(check)
        ELSE createSchedulesEqualPull(tok,
             IF zeroRecipient(recipients) THEN Revert("InvalidParams")
             ELSE [status |-> "ok",
                   nextScheduleId |-> nextScheduleId + n,
                   schedules |-> [id \in Ids |->
                       IF id > nextScheduleId /\ id <= nextScheduleId + n
                       THEN [token |-> token,
                             beneficiary |-> recipients[id - nextScheduleId],
                             totalAmount |-> equalShare(totalAmount, n,
                                                        id - nextScheduleId - 1),
                             released |-> 0, start |-> startTs,
                             cliffEnd |-> cliffEnd, duration |-> durationSeconds,
                             interval |-> intervalSeconds, isActive |-> TRUE]
                       ELSE schedules[id]],
                   customReleases |-> customReleases,
                   userSchedules |-> [a \in Users |->
                       userSchedules[a]
                         \o pushedIds(a, caller, recipients, nextScheduleId + 1)],
                   amount |-> totalAmount,
                   events |-> [i \in 1..n |->
                       Event("ScheduleCreated", idOf(i),
                             equalShare(totalAmount, n, i - 1), 0)],
                   trace |-> <<"call:transferFrom">>
                             \o [i \in 1..(4 * n) |->
                                   CASE i % 4 = 1 -> "sstore:nextScheduleId"
                                     [] i % 4 = 2 -> "sstore:schedule"
                                     [] i % 4 = 3 -> "sstore:userSchedules"
                                     [] OTHER -> "emit:ScheduleCreated"]])

\* fault injection: no step matures at cliffEnd itself
stepVestedNoFirst(s, t) ==
    LET totalSteps == s.duration \div s.interval
        elapsedAfterCliff == IF t <= s.cliffEnd THEN 0 ELSE t - s.cliffEnd
        steps == elapsedAfterCliff \div s.interval
        maturedSteps == IF steps > totalSteps THEN totalSteps ELSE steps
        basePerStep == s.totalAmount \div totalSteps
        rem == s.totalAmount % totalSteps
    IN  basePerStep * maturedSteps + (IF maturedSteps < rem THEN maturedSteps ELSE rem)

\* the step release formula from cliffEnd on
stepVested(s, t) ==
    LET totalSteps == s.duration \div s.interval
        elapsedAfterCliff == IF t <= s.cliffEnd THEN 0 ELSE t - s.cliffEnd
        steps == 1 + (elapsedAfterCliff \div s.interval)
        maturedSteps == IF steps > totalSteps THEN totalSteps ELSE steps
        basePerStep == s.totalAmount \div totalSteps
        rem == s.totalAmount % totalSteps
    IN  basePerStep * maturedSteps + (IF maturedSteps < rem THEN maturedSteps ELSE rem)

stepClaimableOf(s, t) ==
    IF s.totalAmount = 0 \/ ~s.isActive THEN 0
    ELSE IF t < s.cliffEnd THEN 0
    ELSE IF s.duration \div s.interval = 0 THEN 0
    ELSE IF stepVested(s, t) <= s.released THEN 0
    ELSE stepVested(s, t) - s.released

stepGetClaimableAmount(scheduleId) == stepClaimableOf(schedules[scheduleId], now)

\* whether the view reverts: the checked operations it meets, in its order
stepGetClaimableAmountFails(s, t) ==
    IF s.totalAmount = 0 \/ ~s.isActive THEN FALSE
    ELSE IF t < s.cliffEnd THEN FALSE
    ELSE IF s.duration \div s.interval = 0 THEN FALSE
    ELSE LET totalSteps == s.duration \div s.interval
             elapsedAfterCliff == IF t <= s.cliffEnd THEN 0 ELSE t - s.cliffEnd
             steps == elapsedAfterCliff \div s.interval
             maturedSteps == IF steps >= totalSteps THEN totalSteps ELSE 1 + steps
             basePerStep == s.totalAmount \div totalSteps
             rem == s.totalAmount % totalSteps
         IN  \/ AddOverflows(1, steps)
             \/ MulOverflows(basePerStep, maturedSteps)
             \/ AddOverflows(basePerStep * maturedSteps,
                             IF maturedSteps < rem THEN maturedSteps ELSE rem)

\* the test that deactivates the schedule, after released was increased
stepClaimDeactivates(s) == s.released >= s.totalAmount

\* the remaining field of TokensReleased, after released was increased
stepClaimRemaining(s) == CheckedSub(s.totalAmount, s.released)

\* the outbound transfer through safeTransfer
stepClaimTransfer(tok, rest) ==
    IF tok # "ok" THEN Revert(SafeTransferError(tok)) ELSE rest

stepClaim(caller, scheduleId, tok) ==
    LET s == schedules[scheduleId]
        amount == stepGetClaimableAmount(scheduleId)
        s1 == [s EXCEPT !.released = @ + amount]
        off == stepClaimDeactivates(s1)
        s2 == IF off THEN [s1 EXCEPT !.isActive = FALSE] ELSE s1
        remaining == stepClaimRemaining(s2)
    IN  IF s.totalAmount = 0 THEN Revert("InvalidSchedule")
        ELSE IF caller # s.beneficiary THEN Revert("NotBeneficiary")
        ELSE IF amount = 0 THEN Revert("NothingToRelease")
        ELSE stepClaimTransfer(tok,
             IF remaining.panic THEN Revert("Panic")
             ELSE [status |-> "ok",
                   nextScheduleId |-> nextScheduleId,
                   schedules |-> [schedules EXCEPT ![scheduleId] = s2],
                   customReleases |-> customReleases,
                   userSchedules |-> userSchedules,
                   amount |-> amount,
                   events |-> <<Event("TokensReleased", scheduleId, amount,
                                      remaining.value)>>,
                   trace |-> <<"sstore:released">>
                             \o (IF off THEN <<"sstore:isActive">> ELSE <<>>)
                             \o <<"call:transfer", "emit:TokensReleased">>])

----------------------------------------------------------------------------
\* VestingFactory (months; linear or monthly step)

Linear == 0
Step == 1

vfCreateScheduleCheck(beneficiary, totalAmount, cliffMonths, durationMonths, releaseMode) ==
    IF beneficiary = ZERO THEN "Invalid beneficiary"
    ELSE IF ~(totalAmount > 0) THEN "Invalid amount"
    ELSE IF ~(durationMonths > 0 /\ durationMonths > cliffMonths) THEN "Invalid duration"
    ELSE IF ~(releaseMode <= Step) THEN "Invalid mode"
    ELSE "ok"

vfCreateSchedulePull(tok, created) ==
    IF tok = "false" THEN Revert("TRANSFER_FROM_FAILED")
    ELSE IF tok = "throw" THEN Revert("TokenReverted")
    ELSE created

vfCreateSchedule(caller, beneficiary, totalAmount, cliffMonths, durationMonths, releaseMode, tok) ==
    LET check == vfCreateScheduleCheck(beneficiary, totalAmount, cliffMonths,
                                       durationMonths, releaseMode)
        scheduleId == nextScheduleId + 1
    IN  IF check # "ok" THEN Revert(check)
        ELSE vfCreateSchedulePull(tok,
             [status |-> "ok",
              nextScheduleId |-> scheduleId,
              schedules |-> [schedules EXCEPT ![scheduleId] =
                  [beneficiary |-> beneficiary, totalAmount |-> totalAmount,
                   released |-> 0, start |-> now, cliffMonths |-> cliffMonths,
                   durationMonths |-> durationMonths, mode |-> releaseMode]],
              customReleases |-> customReleases,
              userSchedules |-> userSchedules,
              amount |-> totalAmount,
              events |-> <<Event("ScheduleCreated", scheduleId, totalAmount, 0)>>,
              trace |-> <<"call:transferFrom", "sstore:nextScheduleId",
                          "sstore:schedule", "emit:ScheduleCreated">>])

vestedAmount(s, t) ==
    LET start == s.start
        end == start + s.durationMonths * SECONDS_PER_MONTH
        cliffTime == start + s.cliffMonths * SECONDS_PER_MONTH
        total == s.totalAmount
        linearDuration == end - cliffTime
        timeInto == t - cliffTime
        elapsedMonths == (t - start) \div SECONDS_PER_MONTH
        totalVestingMonths == s.durationMonths - s.cliffMonths
        vestedMonths == IF elapsedMonths - s.cliffMonths > totalVestingMonths
                        THEN totalVestingMonths ELSE elapsedMonths - s.cliffMonths
    IN  IF t < cliffTime THEN 0
        ELSE IF t >= end THEN total
        ELSE IF s.mode = Linear THEN (total * timeInto) \div linearDuration
        ELSE IF elapsedMonths <= s.cliffMonths THEN 0
        ELSE (total * vestedMonths) \div totalVestingMonths

\* fault injection: what was released is not taken off the vested amount
claimableAmountOfNoSub(s, t) ==
    IF s.totalAmount = 0 THEN 0 ELSE vestedAmount(s, t)

claimableAmountOf(s, t) ==
    IF s.totalAmount = 0 THEN 0
    ELSE IF vestedAmount(s, t) <= s.released THEN 0
    ELSE vestedAmount(s, t) - s.released

claimableAmount(scheduleId) == claimableAmountOf(schedules[scheduleId], now)

vfClaimTransfer(tok, rest) ==
    IF tok = "false" THEN Revert("TRANSFER_FAILED")
    ELSE IF tok = "throw" THEN Revert("TokenReverted")
    ELSE rest

\* fault injection: the claim pays and does not book what it paid
vfClaimNoBook(caller, scheduleId, tok) ==
    LET s == schedules[scheduleId]
        amount == claimableAmount(scheduleId)
    IN  IF ~(s.totalAmount > 0) THEN Revert("Invalid id")
        ELSE IF caller # s.beneficiary THEN Revert("Not beneficiary")
        ELSE IF ~(amount > 0) THEN Revert("Nothing to claim")
        ELSE vfClaimTransfer(tok,
             [status |-> "ok",
              nextScheduleId |-> nextScheduleId,
              schedules |-> schedules,
              customReleases |-> customReleases,
              userSchedules |-> userSchedules,
              amount |-> amount,
              events |-> <<Event("Claimed", scheduleId, amount, 0)>>,
              trace |-> <<"call:transfer", "emit:Claimed">>])

vfClaim(caller, scheduleId, tok) ==
    LET s == schedules[scheduleId]
        amount == claimableAmount(scheduleId)
    IN  IF ~(s.totalAmount > 0) THEN Revert("Invalid id")
        ELSE IF caller # s.beneficiary THEN Revert("Not beneficiary")
        ELSE IF ~(amount > 0) THEN Revert("Nothing to claim")
        ELSE vfClaimTransfer(tok,
             [status |-> "ok",
              nextScheduleId |-> nextScheduleId,
              schedules |-> [schedules EXCEPT ![scheduleId].released = @ + amount],
              customReleases |-> customReleases,
              userSchedules |-> userSchedules,
              amount |-> amount,
              events |-> <<Event("Claimed", scheduleId, amount, 0)>>,
              trace |-> <<"sstore:released", "call:transfer", "emit:Claimed">>])

----------------------------------------------------------------------------
\* VestingFactory (seconds; revocable by the creator; owned)

MIN_VESTING_DURATION == 24 * 60 * 60

MAX_VESTING_DURATION == 10 * 365 * 24 * 60 * 60

\* the deployer, owner of the factory
OWNER == "owner"

FactoryIds == 0..(MaxSchedules - 1)

ZeroVesting ==
    [token |-> ZERO, beneficiary |-> ZERO, creator |-> ZERO, totalAmount |-> 0,
     startTime |-> 0, duration |-> 0, cliff |-> 0, isActive |-> FALSE,
     released |-> 0, creationTime |-> 0]

\* the outcome of a transaction of the factory that reverts
FactoryRevert(status) ==
    [status |-> status, totalVestings |-> nextScheduleId,
     vestingSchedules |-> schedules, userVestings |-> userSchedules,
     beneficiaryVestings |-> beneficiaryVestings, pulled |-> 0,
     toBeneficiary |-> 0, toCreator |-> 0, toOwner |-> 0,
     events |-> <<>>, trace |-> <<>>]

\* require(token.transfer(to, amount)) with a token that keeps its ledger:
\* it throws when the factory holds less than amount, and may fail otherwise
FactoryTransfer(tok, amount, available) ==
    IF amount > available THEN "TokenReverted"
    ELSE IF tok = "false" THEN "VestingFactory: Transfer failed"
    ELSE IF tok = "throw" THEN "TokenReverted"
    ELSE "ok"

createVestingCheck(token, beneficiary, totalAmount, duration, cliff) ==
    IF token = ZERO THEN "VestingFactory: Invalid token address"
    ELSE IF beneficiary = ZERO THEN "VestingFactory: Invalid beneficiary address"
    ELSE IF ~(totalAmount > 0)
    THEN "VestingFactory: Total amount must be greater than 0"
    ELSE IF ~(duration >= MIN_VESTING_DURATION) THEN "VestingFactory: Duration too short"
    ELSE IF ~(duration <= MAX_VESTING_DURATION) THEN "VestingFactory: Duration too long"
    ELSE IF ~(cliff <= duration) THEN "VestingFactory: Cliff cannot exceed duration"
    ELSE "ok"

createVesting(caller, token, beneficiary, totalAmount, startTime, duration, cliff, tok) ==
    LET check == createVestingCheck(token, beneficiary, totalAmount, duration, cliff)
        vestingId == nextScheduleId
    IN  IF check # "ok" THEN FactoryRevert(check)
        ELSE IF tok = "false" THEN FactoryRevert("VestingFactory: Transfer failed")
        ELSE IF tok = "throw" THEN FactoryRevert("TokenReverted")
        ELSE [status |-> "ok",
              totalVestings |-> nextScheduleId + 1,
              vestingSchedules |-> [schedules EXCEPT ![vestingId] =
                  [token |-> token, beneficiary |-> beneficiary, creator |-> caller,
                   totalAmount |-> totalAmount, startTime |-> startTime,
                   duration |-> duration, cliff |-> cliff, isActive |-> TRUE,
                   released |-> 0, creationTime |-> now]],
              userVestings |-> [userSchedules EXCEPT ![caller] = Append(@, vestingId)],
              beneficiaryVestings |->
                  [beneficiaryVestings EXCEPT ![beneficiary] = Append(@, vestingId)],
              pulled |-> totalAmount,
              toBeneficiary |-> 0, toCreator |-> 0, toOwner |-> 0,
              events |-> <<Event("VestingCreated", vestingId, totalAmount, 0)>>,
              trace |-> <<"call:transferFrom", "sstore:totalVestings",
                          "sstore:vestingSchedules", "sstore:userVestings",
                          "sstore:beneficiaryVestings", "emit:VestingCreated">>]

\* fault injection: the view does not look at isActive
getReleasableAmountOfAnyway(vesting, t) ==
    IF t < vesting.startTime + vesting.cliff THEN Ok(0)
    ELSE IF t >= vesting.startTime + vesting.duration
    THEN CheckedSub(vesting.totalAmount, vesting.released)
    ELSE CheckedSub((vesting.totalAmount * (t - vesting.startTime))
                        \div vesting.duration, vesting.released)

getReleasableAmountOf(vesting, t) ==
    IF ~vesting.isActive THEN Ok(0)
    ELSE IF t < vesting.startTime + vesting.cliff THEN Ok(0)
    ELSE IF t >= vesting.startTime + vesting.duration
    THEN CheckedSub(vesting.totalAmount, vesting.released)
    ELSE LET elapsed == t - vesting.startTime
             vested == (vesting.totalAmount * elapsed) \div vesting.duration
         IN  CheckedSub(vested, vesting.released)

getReleasableAmount(vestingId) == getReleasableAmountOf(schedules[vestingId], now)

releaseVested(caller, vestingId, tok) ==
    LET vesting == schedules[vestingId]
        releasable == getReleasableAmount(vestingId)
        releasableAmount == releasable.value
        sent == FactoryTransfer(tok, releasableAmount, balance)
    IN  IF vesting.beneficiary # caller
        THEN FactoryRevert("VestingFactory: Not the beneficiary")
        ELSE IF ~vesting.isActive THEN FactoryRevert("VestingFactory: Vesting not active")
        ELSE IF releasable.panic THEN FactoryRevert("Panic")
        ELSE IF ~(releasableAmount > 0)
        THEN FactoryRevert("VestingFactory: No tokens to release")
        ELSE IF sent # "ok" THEN FactoryRevert(sent)
        ELSE [status |-> "ok",
              totalVestings |-> nextScheduleId,
              vestingSchedules |->
                  [schedules EXCEPT ![vestingId].released = @ + releasableAmount],
              userVestings |-> userSchedules,
              beneficiaryVestings |-> beneficiaryVestings,
              pulled |-> 0,
              toBeneficiary |-> releasableAmount, toCreator |-> 0, toOwner |-> 0,
              events |-> <<Event("TokensReleased", vestingId, releasableAmount, 0)>>,
              trace |-> <<"sstore:released", "call:transfer", "emit:TokensReleased">>]

\* fault injection: what is releasable is not taken off the refund
revokedAmountOfAll(vesting, releasableAmount) ==
    CheckedSub(vesting.totalAmount, vesting.released)

\* what goes back to the creator
revokedAmountOf(vesting, releasableAmount) ==
    LET unreleased == CheckedSub(vesting.totalAmount, vesting.released)
    IN  IF unreleased.panic THEN Panic
        ELSE CheckedSub(unreleased.value, releasableAmount)

revokeVesting(caller, vestingId, tokBeneficiary, tokCreator) ==
    LET vesting == schedules[vestingId]
        releasable == getReleasableAmount(vestingId)
        releasableAmount == releasable.value
        revoked == revokedAmountOf(vesting, releasableAmount)
        revokedAmount == revoked.value
        sentBeneficiary == IF releasableAmount > 0
                           THEN FactoryTransfer(tokBeneficiary, releasableAmount, balance)
                           ELSE "ok"
        sentCreator == IF revokedAmount > 0
                       THEN FactoryTransfer(tokCreator, revokedAmount,
                                            balance - releasableAmount)
                       ELSE "ok"
    IN  IF vesting.creator # caller THEN FactoryRevert("VestingFactory: Not the creator")
        ELSE IF ~vesting.isActive THEN FactoryRevert("VestingFactory: Vesting not active")
        ELSE IF releasable.panic \/ revoked.panic THEN FactoryRevert("Panic")
        ELSE IF sentBeneficiary # "ok" THEN FactoryRevert(sentBeneficiary)
        ELSE IF sentCreator # "ok" THEN FactoryRevert(sentCreator)
        ELSE [status |-> "ok",
              totalVestings |-> nextScheduleId,
              vestingSchedules |->
                  [schedules EXCEPT ![vestingId].isActive = FALSE,
                                    ![vestingId].released = @ + releasableAmount],
              userVestings |-> userSchedules,
              beneficiaryVestings |-> beneficiaryVestings,
              pulled |-> 0,
              toBeneficiary |-> releasableAmount, toCreator |-> revokedAmount,
              toOwner |-> 0,
              events |-> <<Event("VestingRevoked", vestingId, releasableAmount,
                                 revokedAmount)>>,
              trace |-> <<"sstore:isActive">>
                        \o (IF releasableAmount > 0
                            THEN <<"sstore:released", "call:transfer">> ELSE <<>>)
                        \o (IF revokedAmount > 0 THEN <<"call:transfer">> ELSE <<>>)
                        \o <<"emit:VestingRevoked">>]

emergencyWithdraw(caller, token, amount, tok) ==
    LET sent == FactoryTransfer(tok, amount, balance)
    IN  IF caller # OWNER THEN FactoryRevert("OwnableUnauthorizedAccount")
        ELSE IF sent # "ok" THEN FactoryRevert(sent)
        ELSE [status |-> "ok",
              totalVestings |-> nextScheduleId,
              vestingSchedules |-> schedules,
              userVestings |-> userSchedules,
              beneficiaryVestings |-> beneficiaryVestings,
              pulled |-> 0,
              toBeneficiary |-> 0, toCreator |-> 0, toOwner |-> amount,
              events |-> <<>>,
              trace |-> <<"call:transfer">>]

----------------------------------------------------------------------------
\* Vesting page (src/src/app/tools/vesting/page.tsx): the split of the total
\* among the recipients before one schedule per recipient is created

\* the loop over the recipients: one extra unit while a remainder is left
RECURSIVE pageSplit(_, _, _)
pageSplit(baseShare, remainder, count) ==
    IF count = 0 THEN <<>>
    ELSE <<baseShare + (IF remainder > 0 THEN 1 ELSE 0)>>
         \o pageSplit(baseShare, IF remainder > 0 THEN remainder - 1 ELSE remainder,
                      count - 1)

\* amountEach of every recipient, in input order; no recipient, no split
pageAmounts(totalUnits, count) ==
    IF count = 0 THEN <<>>
    ELSE LET baseShare == totalUnits \div count
             remainder == totalUnits - baseShare * count
         IN  pageSplit(baseShare, remainder, count)

----------------------------------------------------------------------------
\* Transactions and the passage of time

\* the storage a transaction leaves, and the log of a committed one
Commit(op, id, out) ==
    /\ nextScheduleId' = out.nextScheduleId
    /\ schedules' = out.schedules
    /\ customReleases' = out.customReleases
    /\ userSchedules' = out.userSchedules
    /\ lastCall' = IF out.status = "ok"
                   THEN [op |-> op, id |-> id, amount |-> out.amount,
                         events |-> out.events, trace |-> out.trace]
                   ELSE lastCall
    /\ balance' = IF out.status # "ok" THEN balance
                  ELSE IF op = "claim" THEN balance - out.amount
                  ELSE balance + out.amount
    /\ UNCHANGED <<beneficiaryVestings, refunded, stack, lockerVars, hookVars>>

\* the escrow pays what a committed claim transferred
Pay(id, out) ==
    paid' = IF out.status = "ok" THEN [paid EXCEPT ![id] = @ + out.amount] ELSE paid

CustomEntries ==
    [timestamp : {TickStep, 2 * TickStep}, amount : Amounts, claimed : {FALSE}]

\* custom lists a caller may pass: one entry, two entries (in or out of
\* order, summing to the total or not)
CustomLists ==
    {<<e>> : e \in CustomEntries} \cup {<<e, f>> : e \in CustomEntries, f \in CustomEntries}

PreClaimed == [timestamp |-> TickStep, amount |-> 1, claimed |-> TRUE]

\* createSchedule calls: linear requests, custom requests, and requests that
\* name no token, hold a pre-claimed entry, or meet a failing token
LinCreateInputs ==
    [caller : Creators, token : {TOKEN}, beneficiary : Addresses, totalAmount : Amounts,
     cliffMonths : Months, durationMonths : Months, rs : {<<>>}, tok : {"ok"}]
    \cup
    [caller : Creators, token : {TOKEN}, beneficiary : Users, totalAmount : Amounts,
     cliffMonths : {0}, durationMonths : {0}, rs : CustomLists, tok : {"ok"}]
    \cup
    [caller : Creators, token : {ZERO, TOKEN}, beneficiary : {"bob"}, totalAmount : {1},
     cliffMonths : {0}, durationMonths : {1}, rs : {<<>>, <<PreClaimed>>},
     tok : TransferResults]

LinCreateSchedule ==
    /\ deployed = "Lin"
    /\ nextScheduleId < MaxSchedules
    /\ \E in \in LinCreateInputs :
          Commit("createSchedule", nextScheduleId + 1,
                 createSchedule(in.caller, in.token, in.beneficiary, in.totalAmount,
                                in.cliffMonths, in.durationMonths, in.rs, in.tok))
    /\ UNCHANGED <<deployed, now, paid>>

LinClaim ==
    /\ deployed = "Lin"
    /\ \E caller \in Users, scheduleId \in Ids, tok \in TransferResults :
          LET out == claim(caller, scheduleId, tok)
          IN  Commit("claim", scheduleId, out) /\ Pay(scheduleId, out)
    /\ UNCHANGED <<deployed, now>>

\* recipient lists a caller may pass: none, one address, two addresses
RecipientLists ==
    {<<>>} \cup {<<a>> : a \in Addresses}
           \cup {<<a, b>> : a \in Addresses, b \in Addresses}

StepSeconds == {k * TickStep : k \in 0..MaxMonths}

\* createSchedulesEqual calls, and calls that name no token or meet a
\* failing token
StepCreateInputs ==
    [caller : Creators, token : {TOKEN}, recipients : RecipientLists,
     totalAmount : Amounts, cliffSeconds : {0, TickStep},
     durationSeconds : StepSeconds, intervalSeconds : StepSeconds, tok : {"ok"}]
    \cup
    [caller : Creators, token : {ZERO, TOKEN}, recipients : {<<"bob">>},
     totalAmount : {1}, cliffSeconds : {0}, durationSeconds : {TickStep},
     intervalSeconds : {TickStep}, tok : TransferResults]

StepCreateSchedulesEqual ==
    /\ deployed = "Step"
    /\ \E in \in StepCreateInputs :
          /\ nextScheduleId + Len(in.recipients) <= MaxSchedules
          /\ Commit("createSchedulesEqual", nextScheduleId + 1,
                    createSchedulesEqual(in.caller, in.token, in.recipients,
                                         in.totalAmount, in.cliffSeconds,
                                         in.durationSeconds, in.intervalSeconds,
                                         in.tok))
    /\ UNCHANGED <<deployed, now, paid>>

StepClaim ==
    /\ deployed = "Step"
    /\ \E caller \in Users, scheduleId \in Ids, tok \in TransferResults :
          LET out == stepClaim(caller, scheduleId, tok)
          IN  Commit("claim", scheduleId, out) /\ Pay(scheduleId, out)
    /\ UNCHANGED <<deployed, now>>

\* createSchedule calls of the factory, and calls that meet a failing token
VFCreateInputs ==
    [caller : Creators, beneficiary : Addresses, totalAmount : Amounts,
     cliffMonths : Months, durationMonths : Months,
     releaseMode : {Linear, Step, Step + 1}, tok : {"ok"}]
    \cup
    [caller : Creators, beneficiary : {"bob"}, totalAmount : {1}, cliffMonths : {0},
     durationMonths : {1}, releaseMode : {Linear}, tok : TransferResults]

VFCreateSchedule ==
    /\ deployed = "VF"
    /\ nextScheduleId < MaxSchedules
    /\ \E in \in VFCreateInputs :
          Commit("createSchedule", nextScheduleId + 1,
                 vfCreateSchedule(in.caller, in.beneficiary, in.totalAmount,
                                  in.cliffMonths, in.durationMonths,
                                  in.releaseMode, in.tok))
    /\ UNCHANGED <<deployed, now, paid>>

VFClaim ==
    /\ deployed = "VF"
    /\ \E caller \in Users, scheduleId \in Ids, tok \in TransferResults :
          LET out == vfClaim(caller, scheduleId, tok)
          IN  Commit("claim", scheduleId, out) /\ Pay(scheduleId, out)
    /\ UNCHANGED <<deployed, now>>

\* a later block: block.timestamp moves on
Tick ==
    /\ now < MaxTicks * TickStep
    /\ now' = now + TickStep
    /\ lastCall' = NoCall
    /\ UNCHANGED <<deployed, nextScheduleId, schedules, customReleases,
                   userSchedules, beneficiaryVestings, paid, refunded, balance,
                   stack, lockerVars, hookVars>>

\* no token locker is part of the behaviour
NoLocker ==
    /\ nextLockId = 0
    /\ locks = <<>>
    /\ ownerLocks = <<>>
    /\ ownerIndex = <<>>
    /\ lockedBalances = <<>>

\* no component that uses the hook is mounted
NoHook ==
    /\ address = "undefined"
    /\ client = "undefined"
    /\ runs = <<>>
    /\ myLocks = <<>>
    /\ loading = FALSE
    /\ error = "null"

ZeroSchedule(c) ==
    IF c = "Lin"
    THEN [token |-> ZERO, beneficiary |-> ZERO, totalAmount |-> 0, released |-> 0,
          start |-> 0, cliffMonths |-> 0, durationMonths |-> 0, isActive |-> FALSE]
    ELSE IF c = "Step"
    THEN [token |-> ZERO, beneficiary |-> ZERO, totalAmount |-> 0, released |-> 0,
          start |-> 0, cliffEnd |-> 0, duration |-> 0, interval |-> 0,
          isActive |-> FALSE]
    ELSE [beneficiary |-> ZERO, totalAmount |-> 0, released |-> 0, start |-> 0,
          cliffMonths |-> 0, durationMonths |-> 0, mode |-> 0]

\* a freshly deployed contract: every storage slot reads as zero
Init ==
    /\ deployed \in Contracts
    /\ now = 0
    /\ nextScheduleId = 0
    /\ schedules = [i \in Ids |-> ZeroSchedule(deployed)]
    /\ customReleases = [i \in Ids |-> <<>>]
    /\ userSchedules = [a \in Users |-> <<>>]
    /\ beneficiaryVestings = [a \in Users |-> <<>>]
    /\ paid = [i \in Ids |-> 0]
    /\ refunded = [i \in Ids |-> 0]
    /\ balance = 0
    /\ lastCall = NoCall
    /\ stack = <<>>
    /\ NoLocker
    /\ NoHook

Next ==
    \/ LinCreateSchedule
    \/ LinClaim
    \/ StepCreateSchedulesEqual
    \/ StepClaim
    \/ VFCreateSchedule
    \/ VFClaim
    \/ Tick

Spec == Init /\ [][Next]_vars

----------------------------------------------------------------------------
\* One creation, then the passage of time: the release formulas over a wider
\* range of amounts, months and seconds, on schedules nothing was claimed of

VestTickStep == SECONDS_PER_MONTH \div VestTicksPerMonth

VestAmounts == 0..VestMaxAmount

VestMonths == 0..VestMaxMonths

VestSeconds == {k * VestTickStep : k \in 0..VestMaxMonths}

VestCustomEntries ==
    [timestamp : {VestTickStep, 2 * VestTickStep}, amount : {1, 2}, claimed : BOOLEAN]

VestCustomLists ==
    {<<e>> : e \in VestCustomEntries}
        \cup {<<e, f>> : e \in VestCustomEntries, f \in VestCustomEntries}

VestLinInputs ==
    [caller : Creators, token : {TOKEN}, beneficiary : {"bob"}, totalAmount : VestAmounts,
     cliffMonths : VestMonths, durationMonths : VestMonths, rs : {<<>>}, tok : {"ok"}]
    \cup
    [caller : Creators, token : {TOKEN}, beneficiary : {"bob"}, totalAmount : 1..4,
     cliffMonths : {0}, durationMonths : {0}, rs : VestCustomLists, tok : {"ok"}]

\* recipient lists of every length up to MaxBatch, one that names the zero
\* address, one longer than the contract allows
VestRecipientLists ==
    {[i \in 1..n |-> IF i % 2 = 1 THEN "bob" ELSE "alice"] : n \in 0..MaxBatch}
        \cup {<<"bob", ZERO>>, [i \in 1..(MAX_RECIPIENTS + 1) |-> "bob"]}

VestStepInputs ==
    [caller : Creators, token : {TOKEN}, recipients : VestRecipientLists,
     totalAmount : VestAmounts, cliffSeconds : VestSeconds,
     durationSeconds : VestSeconds, intervalSeconds : VestSeconds, tok : {"ok"}]

VestVFInputs ==
    [caller : Creators, beneficiary : {"bob"}, totalAmount : VestAmounts,
     cliffMonths : VestMonths, durationMonths : VestMonths,
     releaseMode : {Linear, Step}, tok : {"ok"}]

VestLinCreate ==
    /\ deployed = "Lin"
    /\ nextScheduleId = 0
    /\ \E in \in VestLinInputs :
          Commit("createSchedule", nextScheduleId + 1,
                 createSchedule(in.caller, in.token, in.beneficiary, in.totalAmount,
                                in.cliffMonths, in.durationMonths, in.rs, in.tok))
    /\ UNCHANGED <<deployed, now, paid>>

VestStepCreate ==
    /\ deployed = "Step"
    /\ nextScheduleId = 0
    /\ \E in \in VestStepInputs :
          Commit("createSchedulesEqual", nextScheduleId + 1,
                 createSchedulesEqual(in.caller, in.token, in.recipients,
                                      in.totalAmount, in.cliffSeconds,
                                      in.durationSeconds, in.intervalSeconds, in.tok))
    /\ UNCHANGED <<deployed, now, paid>>

VestVFCreate ==
    /\ deployed = "VF"
    /\ nextScheduleId = 0
    /\ \E in \in VestVFInputs :
          Commit("createSchedule", nextScheduleId + 1,
                 vfCreateSchedule(in.caller, in.beneficiary, in.totalAmount,
                                  in.cliffMonths, in.durationMonths,
                                  in.releaseMode, in.tok))
    /\ UNCHANGED <<deployed, now, paid>>

\* a later block, in steps of a fraction of a month
VestTick ==
    /\ now < (VestMaxMonths * VestTicksPerMonth + 1) * VestTickStep
    /\ now' = now + VestTickStep
    /\ lastCall' = NoCall
    /\ UNCHANGED <<deployed, nextScheduleId, schedules, customReleases,
                   userSchedules, beneficiaryVestings, paid, refunded, balance,
                   stack, lockerVars, hookVars>>

VestNext ==
    \/ VestLinCreate
    \/ VestStepCreate
    \/ VestVFCreate
    \/ VestTick

VestingSpec == Init /\ [][VestNext]_vars

----------------------------------------------------------------------------
\* Schedules of amounts and durations up to the machine word, and the
\* passage of time: what the views meet when nothing was claimed

WideLinInputs ==
    [caller : Creators, token : {TOKEN}, beneficiary : {"bob"},
     totalAmount : {1, WordMax \div 2, WordMax}, cliffMonths : {0, 1},
     durationMonths : {1, 2, WordMax \div SECONDS_PER_MONTH + 1},
     rs : {<<>>}, tok : {"ok"}]

WideStepInputs ==
    [caller : Creators, token : {TOKEN}, recipients : {<<"bob">>, <<"bob", "alice">>},
     totalAmount : {1, WordMax \div 2, WordMax}, cliffSeconds : {0, TickStep},
     durationSeconds : {TickStep, 2 * TickStep}, intervalSeconds : {TickStep},
     tok : {"ok"}]

WideLinCreate ==
    /\ deployed = "Lin"
    /\ nextScheduleId < MaxSchedules
    /\ \E in \in WideLinInputs :
          Commit("createSchedule", nextScheduleId + 1,
                 createSchedule(in.caller, in.token, in.beneficiary, in.totalAmount,
                                in.cliffMonths, in.durationMonths, in.rs, in.tok))
    /\ UNCHANGED <<deployed, now, paid>>

WideStepCreate ==
    /\ deployed = "Step"
    /\ \E in \in WideStepInputs :
          /\ nextScheduleId + Len(in.recipients) <= MaxSchedules
          /\ Commit("createSchedulesEqual", nextScheduleId + 1,
                    createSchedulesEqual(in.caller, in.token, in.recipients,
                                         in.totalAmount, in.cliffSeconds,
                                         in.durationSeconds, in.intervalSeconds,
                                         in.tok))
    /\ UNCHANGED <<deployed, now, paid>>

WideNext ==
    \/ WideLinCreate
    \/ WideStepCreate
    \/ Tick

WideSpec == Init /\ [][WideNext]_vars

----------------------------------------------------------------------------
\* The life of a deployed factory

\* the storage and the ledger a transaction of the factory leaves
FactoryCommit(op, id, out) ==
    /\ nextScheduleId' = out.totalVestings
    /\ schedules' = out.vestingSchedules
    /\ userSchedules' = out.userVestings
    /\ beneficiaryVestings' = out.beneficiaryVestings
    /\ paid' = IF out.toBeneficiary > 0
               THEN [paid EXCEPT ![id] = @ + out.toBeneficiary] ELSE paid
    /\ refunded' = IF out.toCreator > 0
                   THEN [refunded EXCEPT ![id] = @ + out.toCreator] ELSE refunded
    /\ balance' = balance + out.pulled - out.toBeneficiary - out.toCreator
                      - out.toOwner
    /\ lastCall' = IF out.status = "ok"
                   THEN [op |-> op, id |-> id,
                         amount |-> IF op = "createVesting" THEN out.pulled
                                    ELSE IF op = "emergencyWithdraw" THEN out.toOwner
                                    ELSE out.toBeneficiary,
                         events |-> out.events, trace |-> out.trace]
                   ELSE lastCall
    /\ UNCHANGED <<deployed, now, customReleases, stack, lockerVars, hookVars>>

\* createVesting calls, and calls that fail a check or meet a failing token
FactoryCreateInputs ==
    [caller : Creators, token : {TOKEN}, beneficiary : {"bob"}, totalAmount : 1..MaxAmount,
     startTime : {0}, duration : {TickStep, 2 * TickStep},
     cliff : {0, TickStep}, tok : {"ok"}]
    \cup
    [caller : Creators, token : {ZERO, TOKEN}, beneficiary : {ZERO, "bob"},
     totalAmount : {0, 1}, startTime : {0, TickStep},
     duration : {0, TickStep, MAX_VESTING_DURATION + 1}, cliff : {0, 2 * TickStep},
     tok : TransferResults]

FactoryCreateVesting ==
    /\ deployed = "Factory"
    /\ nextScheduleId < MaxSchedules
    /\ \E in \in FactoryCreateInputs :
          FactoryCommit("createVesting", nextScheduleId,
                        createVesting(in.caller, in.token, in.beneficiary,
                                      in.totalAmount, in.startTime, in.duration,
                                      in.cliff, in.tok))

FactoryReleaseVested ==
    /\ deployed = "Factory"
    /\ \E caller \in Users, vestingId \in FactoryIds, tok \in TransferResults :
          FactoryCommit("releaseVested", vestingId,
                        releaseVested(caller, vestingId, tok))

FactoryRevokeVesting ==
    /\ deployed = "Factory"
    /\ \E caller \in Users, vestingId \in FactoryIds,
          tokBeneficiary \in TransferResults, tokCreator \in TransferResults :
          FactoryCommit("revokeVesting", vestingId,
                        revokeVesting(caller, vestingId, tokBeneficiary, tokCreator))

FactoryEmergencyWithdraw ==
    /\ deployed = "Factory"
    /\ \E caller \in {OWNER, "bob"}, amount \in 1..(MaxAmount * MaxSchedules),
          tok \in TransferResults :
          FactoryCommit("emergencyWithdraw", 0,
                        emergencyWithdraw(caller, TOKEN, amount, tok))

\* a freshly deployed factory
FactoryInit ==
    /\ deployed = "Factory"
    /\ now = 0
    /\ nextScheduleId = 0
    /\ schedules = [i \in FactoryIds |-> ZeroVesting]
    /\ customReleases = [i \in Ids |-> <<>>]
    /\ userSchedules = [a \in Users |-> <<>>]
    /\ beneficiaryVestings = [a \in Users |-> <<>>]
    /\ paid = [i \in FactoryIds |-> 0]
    /\ refunded = [i \in FactoryIds |-> 0]
    /\ balance = 0
    /\ lastCall = NoCall
    /\ stack = <<>>
    /\ NoLocker
    /\ NoHook

FactoryNext ==
    \/ FactoryCreateVesting
    \/ FactoryReleaseVested
    \/ FactoryRevokeVesting
    \/ FactoryEmergencyWithdraw
    \/ Tick

FactorySpec == FactoryInit /\ [][FactoryNext]_vars

----------------------------------------------------------------------------
\* PlasmaticTokenLockerV1 (pure timelock)

\* bound of the lockers: the locks one behaviour creates
MaxLocks == 3

LockIds == 1..MaxLocks

\* uint256 public feeAmount = 1 ether, counted in ether
feeAmount == 1

ZeroLock ==
    [token |-> ZERO, amount |-> 0, withdrawn |-> 0, lockUntil |-> 0, owner |-> ZERO]

\* the outcome of a transaction of a locker that reverts
LockerRevert(status) ==
    [status |-> status, nextLockId |-> nextLockId, locks |-> locks,
     ownerLocks |-> ownerLocks, ownerIndex |-> ownerIndex,
     lockedBalances |-> lockedBalances, pulled |-> 0, paidOut |-> 0,
     events |-> <<>>, trace |-> <<>>]

\* the checks of lock before the fee and the token are moved
lockCheck(token, amount, lockUntil, value, feeOk) ==
    IF token = ZERO \/ amount = 0 THEN "InvalidParams"
    ELSE IF lockUntil <= now THEN "InvalidParams"
    ELSE IF value # feeAmount THEN "FEE"
    ELSE IF value > 0 /\ ~feeOk THEN "FEE_TRANSFER"
    ELSE "ok"

lock(caller, token, amount, lockUntil, value, feeOk, tok) ==
    LET check == lockCheck(token, amount, lockUntil, value, feeOk)
        lockId == nextLockId + 1
    IN  IF check # "ok" THEN LockerRevert(check)
        ELSE IF tok = "throw" THEN LockerRevert("TokenReverted")
        ELSE IF tok = "false" THEN LockerRevert("TRANSFER_FROM_FAILED")
        ELSE [status |-> "ok",
              nextLockId |-> lockId,
              locks |-> [locks EXCEPT ![lockId] =
                            [token |-> token, amount |-> amount, withdrawn |-> 0,
                             lockUntil |-> lockUntil, owner |-> caller]],
              ownerLocks |-> [ownerLocks EXCEPT ![caller] = Append(@, lockId)],
              ownerIndex |-> [ownerIndex EXCEPT ![lockId] = Len(ownerLocks[caller])],
              lockedBalances |-> lockedBalances,
              pulled |-> amount, paidOut |-> 0,
              events |-> <<Event("Locked", lockId, amount, lockUntil)>>,
              trace |-> <<"call:fee", "call:transferFrom", "sstore:nextLockId",
                          "sstore:lock", "sstore:ownerIndex", "sstore:ownerLocks",
                          "emit:Locked">>]

\* fault injection: the view does not look at lockUntil
withdrawableOfAnyTime(info, t) ==
    IF info.amount = 0 THEN Ok(0) ELSE CheckedSub(info.amount, info.withdrawn)

withdrawableOf(info, t) ==
    IF info.amount = 0 THEN Ok(0)
    ELSE IF t < info.lockUntil THEN Ok(0)
    ELSE CheckedSub(info.amount, info.withdrawn)

withdrawable(lockId) == withdrawableOf(locks[lockId], now)

\* fault injection: the id moved into the hole keeps its old recorded position
removeFromListStale(list, index, lockId) ==
    LET idx == index[lockId]
        lastIdx == Len(list) - 1
    IN  IF Len(list) = 0 \/ idx > lastIdx THEN [panic |-> TRUE, list |-> list, index |-> index]
        ELSE [panic |-> FALSE,
              list |-> SubSeq(IF idx # lastIdx
                              THEN [list EXCEPT ![idx + 1] = list[lastIdx + 1]]
                              ELSE list, 1, lastIdx),
              index |-> [index EXCEPT ![lockId] = 0]]

\* the swap-with-last-and-pop removal of lockId from its owner's list; the
\* positions of the source count from 0, those of a sequence from 1
removeFromList(list, index, lockId) ==
    LET idx == index[lockId]
        lastIdx == Len(list) - 1
        lastId == list[lastIdx + 1]
    IN  IF Len(list) = 0 \/ idx > lastIdx THEN [panic |-> TRUE, list |-> list, index |-> index]
        ELSE [panic |-> FALSE,
              list |-> SubSeq(IF idx # lastIdx
                              THEN [list EXCEPT ![idx + 1] = lastId]
                              ELSE list, 1, lastIdx),
              index |-> [(IF idx # lastIdx
                          THEN [index EXCEPT ![lastId] = idx]
                          ELSE index) EXCEPT ![lockId] = 0]]

withdraw(caller, lockId, tok) ==
    LET info == locks[lockId]
        amountToWithdraw == withdrawable(lockId)
        withdrawn == info.withdrawn + amountToWithdraw.value
        removed == removeFromList(ownerLocks[info.owner], ownerIndex, lockId)
    IN  IF info.owner # caller THEN LockerRevert("NotOwner")
        ELSE IF amountToWithdraw.panic THEN LockerRevert("Panic")
        ELSE IF amountToWithdraw.value = 0 THEN LockerRevert("NothingToWithdraw")
        ELSE IF tok = "throw" THEN LockerRevert("TokenReverted")
        ELSE IF tok = "false" THEN LockerRevert("TRANSFER_FAILED")
        ELSE IF withdrawn >= info.amount /\ removed.panic THEN LockerRevert("Panic")
        ELSE [status |-> "ok",
              nextLockId |-> nextLockId,
              locks |-> [locks EXCEPT ![lockId].withdrawn = withdrawn],
              ownerLocks |-> IF withdrawn >= info.amount
                             THEN [ownerLocks EXCEPT ![info.owner] = removed.list]
                             ELSE ownerLocks,
              ownerIndex |-> IF withdrawn >= info.amount THEN removed.index
                             ELSE ownerIndex,
              lockedBalances |-> lockedBalances,
              pulled |-> 0, paidOut |-> amountToWithdraw.value,
              events |-> <<Event("Withdrawn", lockId, amountToWithdraw.value, 0)>>,
              trace |-> <<"sstore:withdrawn", "call:transfer", "emit:Withdrawn">>
                        \o (IF withdrawn >= info.amount
                            THEN <<"sstore:ownerLocks", "sstore:ownerIndex">>
                            ELSE <<>>)]

\* the storage and the ledger a transaction of a locker leaves
LockerCommit(op, id, out) ==
    /\ nextLockId' = out.nextLockId
    /\ locks' = out.locks
    /\ ownerLocks' = out.ownerLocks
    /\ ownerIndex' = out.ownerIndex
    /\ lockedBalances' = out.lockedBalances
    /\ paid' = IF out.paidOut > 0 THEN [paid EXCEPT ![id] = @ + out.paidOut] ELSE paid
    /\ balance' = balance + out.pulled - out.paidOut
    /\ lastCall' = IF out.status = "ok"
                   THEN [op |-> op, id |-> id,
                         amount |-> IF out.pulled > 0 THEN out.pulled ELSE out.paidOut,
                         events |-> out.events, trace |-> out.trace]
                   ELSE lastCall
    /\ UNCHANGED <<deployed, now, nextScheduleId, schedules, customReleases,
                   userSchedules, beneficiaryVestings, refunded, stack, hookVars>>

\* the times a lock may end at
LockTimes == {k * TickStep : k \in 0..MaxTicks}

\* lock calls, and calls that fail a check, the fee or the token
V1LockInputs ==
    [caller : Users, token : {TOKEN}, amount : 1..MaxAmount, lockUntil : LockTimes,
     value : {feeAmount}, feeOk : {TRUE}, tok : {"ok"}]
    \cup
    [caller : {"alice"}, token : {ZERO, TOKEN}, amount : {0, 1},
     lockUntil : {2 * TickStep}, value : {0, feeAmount}, feeOk : BOOLEAN,
     tok : TransferResults]

V1Lock ==
    /\ deployed = "LockerV1"
    /\ nextLockId < MaxLocks
    /\ \E in \in V1LockInputs :
          LockerCommit("lock", nextLockId + 1,
                       lock(in.caller, in.token, in.amount, in.lockUntil,
                            in.value, in.feeOk, in.tok))

V1Withdraw ==
    /\ deployed = "LockerV1"
    /\ \E caller \in Users, lockId \in LockIds, tok \in TransferResults :
          LockerCommit("withdraw", lockId, withdraw(caller, lockId, tok))

\* a freshly deployed PlasmaticTokenLockerV1
V1Init ==
    /\ deployed = "LockerV1"
    /\ now = 0
    /\ nextScheduleId = 0
    /\ schedules = <<>>
    /\ customReleases = <<>>
    /\ userSchedules = <<>>
    /\ beneficiaryVestings = <<>>
    /\ paid = [i \in LockIds |-> 0]
    /\ refunded = <<>>
    /\ balance = 0
    /\ lastCall = NoCall
    /\ stack = <<>>
    /\ nextLockId = 0
    /\ locks = [i \in LockIds |-> ZeroLock]
    /\ ownerLocks = [a \in Users |-> <<>>]
    /\ ownerIndex = [i \in LockIds |-> 0]
    /\ lockedBalances = <<>>
    /\ NoHook

V1Next ==
    \/ V1Lock
    \/ V1Withdraw
    \/ Tick

LockerV1Spec == V1Init /\ [][V1Next]_vars

----------------------------------------------------------------------------
\* TokenLocker (lock with cliff)

\* bounds of LockerSpec: one lock, amounts and times in seconds
CliffMaxLocks == 1
CliffMaxAmount == 5
CliffMaxTime == 5

ZeroCliffLock ==
    [token |-> ZERO, amount |-> 0, withdrawn |-> 0, lockUntil |-> 0, cliff |-> 0,
     owner |-> ZERO]

\* the checks of lock before the token is pulled
cliffLockCheck(token, amount, lockUntil, cliff) ==
    IF token = ZERO \/ amount = 0 THEN "InvalidParams"
    ELSE IF lockUntil <= now THEN "InvalidParams"
    ELSE IF cliff > 0 /\ cliff >= lockUntil THEN "InvalidParams"
    ELSE "ok"

cliffLock(caller, token, amount, lockUntil, cliff, tok) ==
    LET check == cliffLockCheck(token, amount, lockUntil, cliff)
        lockId == nextLockId + 1
    IN  IF check # "ok" THEN LockerRevert(check)
        ELSE IF tok = "throw" THEN LockerRevert("TokenReverted")
        ELSE IF tok = "false" THEN LockerRevert("TRANSFER_FROM_FAILED")
        ELSE [status |-> "ok",
              nextLockId |-> lockId,
              locks |-> [locks EXCEPT ![lockId] =
                            [token |-> token, amount |-> amount, withdrawn |-> 0,
                             lockUntil |-> lockUntil, cliff |-> cliff,
                             owner |-> caller]],
              ownerLocks |-> [ownerLocks EXCEPT ![caller] = Append(@, lockId)],
              ownerIndex |-> ownerIndex,
              lockedBalances |-> lockedBalances,
              pulled |-> amount, paidOut |-> 0,
              events |-> <<Event("Locked", lockId, amount, lockUntil)>>,
              trace |-> <<"call:transferFrom", "sstore:nextLockId", "sstore:lock",
                          "sstore:ownerLocks", "emit:Locked">>]

\* fault injection: the release runs from time 0 to lockUntil
cliffWithdrawableOfFromZero(info, t) ==
    IF info.amount = 0 THEN Ok(0)
    ELSE IF info.cliff = 0
    THEN (IF t < info.lockUntil THEN Ok(0)
          ELSE CheckedSub(info.amount, info.withdrawn))
    ELSE IF t <= info.cliff THEN Ok(0)
    ELSE IF t >= info.lockUntil THEN CheckedSub(info.amount, info.withdrawn)
    ELSE LET unlocked == (info.amount * t) \div info.lockUntil
         IN  IF unlocked <= info.withdrawn THEN Ok(0)
             ELSE Ok(unlocked - info.withdrawn)

cliffWithdrawableOf(info, t) ==
    IF info.amount = 0 THEN Ok(0)
    ELSE IF info.cliff = 0
    THEN (IF t < info.lockUntil THEN Ok(0)
          ELSE CheckedSub(info.amount, info.withdrawn))
    ELSE IF t <= info.cliff THEN Ok(0)
    ELSE IF t >= info.lockUntil THEN CheckedSub(info.amount, info.withdrawn)
    ELSE LET vestingDuration == info.lockUntil - info.cliff
             timeElapsed == t - info.cliff
             unlocked == (info.amount * timeElapsed) \div vestingDuration
         IN  IF unlocked <= info.withdrawn THEN Ok(0)
             ELSE Ok(unlocked - info.withdrawn)

cliffWithdrawable(lockId) == cliffWithdrawableOf(locks[lockId], now)

cliffWithdraw(caller, lockId, tok) ==
    LET info == locks[lockId]
        amountToWithdraw == cliffWithdrawable(lockId)
    IN  IF info.owner # caller THEN LockerRevert("NotOwner")
        ELSE IF amountToWithdraw.panic THEN LockerRevert("Panic")
        ELSE IF amountToWithdraw.value = 0 THEN LockerRevert("NothingToWithdraw")
        ELSE IF tok = "throw" THEN LockerRevert("TokenReverted")
        ELSE IF tok = "false" THEN LockerRevert("TRANSFER_FAILED")
        ELSE [status |-> "ok",
              nextLockId |-> nextLockId,
              locks |-> [locks EXCEPT ![lockId].withdrawn =
                                          @ + amountToWithdraw.value],
              ownerLocks |-> ownerLocks,
              ownerIndex |-> ownerIndex,
              lockedBalances |-> lockedBalances,
              pulled |-> 0, paidOut |-> amountToWithdraw.value,
              events |-> <<Event("Withdrawn", lockId, amountToWithdraw.value, 0)>>,
              trace |-> <<"sstore:withdrawn", "call:transfer", "emit:Withdrawn">>]

\* lock calls, and calls that fail a check or meet a failing token
CliffLockInputs ==
    [caller : {"alice"}, token : {TOKEN}, amount : 1..CliffMaxAmount,
     lockUntil : 1..CliffMaxTime, cliff : 0..(CliffMaxTime - 1), tok : {"ok"}]
    \cup
    [caller : {"alice"}, token : {ZERO, TOKEN}, amount : {0, 1},
     lockUntil : {0, CliffMaxTime}, cliff : {0, CliffMaxTime}, tok : TransferResults]

CliffLock ==
    /\ deployed = "Locker"
    /\ nextLockId < CliffMaxLocks
    /\ \E in \in CliffLockInputs :
          LockerCommit("lock", nextLockId + 1,
                       cliffLock(in.caller, in.token, in.amount, in.lockUntil,
                                 in.cliff, in.tok))

CliffWithdraw ==
    /\ deployed = "Locker"
    /\ \E caller \in Users, lockId \in LockIds, tok \in TransferResults :
          LockerCommit("withdraw", lockId, cliffWithdraw(caller, lockId, tok))

\* a later block, one second on
CliffTick ==
    /\ now <= CliffMaxTime
    /\ now' = now + 1
    /\ lastCall' = NoCall
    /\ UNCHANGED <<deployed, nextScheduleId, schedules, customReleases,
                   userSchedules, beneficiaryVestings, paid, refunded, balance,
                   stack, lockerVars, hookVars>>

\* a freshly deployed TokenLocker
CliffInit ==
    /\ deployed = "Locker"
    /\ now = 0
    /\ nextScheduleId = 0
    /\ schedules = <<>>
    /\ customReleases = <<>>
    /\ userSchedules = <<>>
    /\ beneficiaryVestings = <<>>
    /\ paid = [i \in LockIds |-> 0]
    /\ refunded = <<>>
    /\ balance = 0
    /\ lastCall = NoCall
    /\ stack = <<>>
    /\ nextLockId = 0
    /\ locks = [i \in LockIds |-> ZeroCliffLock]
    /\ ownerLocks = [a \in Users |-> <<>>]
    /\ ownerIndex = <<>>
    /\ lockedBalances = <<>>
    /\ NoHook

CliffNext ==
    \/ CliffLock
    \/ CliffWithdraw
    \/ CliffTick

LockerSpec == CliffInit /\ [][CliffNext]_vars

----------------------------------------------------------------------------
\* TokenLocker (owned, whole-amount locks) and LiquidityLocker

\* bound of LegacySpec: the locks one behaviour creates
LegacyMaxLocks == 2

MIN_LOCK_DURATION == 24 * 60 * 60

MAX_LOCK_DURATION == 10 * 365 * 24 * 60 * 60

\* lock ids of these lockers: lockId = totalLocks++
LegacyIds == 0..(LegacyMaxLocks - 1)

\* the tokens locked
Tokens == {TOKEN, "token2"}

ZeroLegacyLock ==
    [token |-> ZERO, owner |-> ZERO, amount |-> 0, unlockTime |-> 0,
     isLocked |-> FALSE, lockTime |-> 0]

\* the requires of lockTokens before the token is pulled
lockTokensCheck(token, amount, unlockTime) ==
    IF token = ZERO THEN "TokenLocker: Invalid token address"
    ELSE IF amount = 0 THEN "TokenLocker: Amount must be greater than 0"
    ELSE IF unlockTime <= now THEN "TokenLocker: Unlock time must be in the future"
    ELSE IF unlockTime - now < MIN_LOCK_DURATION THEN "TokenLocker: Lock duration too short"
    ELSE IF unlockTime - now > MAX_LOCK_DURATION THEN "TokenLocker: Lock duration too long"
    ELSE "ok"

lockTokens(caller, token, amount, unlockTime, tok) ==
    LET check == lockTokensCheck(token, amount, unlockTime)
        lockId == nextLockId
    IN  IF check # "ok" THEN LockerRevert(check)
        ELSE IF tok = "throw" THEN LockerRevert("TokenReverted")
        ELSE IF tok = "false" THEN LockerRevert("TokenLocker: Transfer failed")
        ELSE [status |-> "ok",
              nextLockId |-> nextLockId + 1,
              locks |-> [locks EXCEPT ![lockId] =
                            [token |-> token, owner |-> caller, amount |-> amount,
                             unlockTime |-> unlockTime, isLocked |-> TRUE,
                             lockTime |-> now]],
              ownerLocks |-> [ownerLocks EXCEPT ![caller] = Append(@, lockId)],
              ownerIndex |-> ownerIndex,
              lockedBalances |-> [lockedBalances EXCEPT ![caller][token] = @ + amount],
              pulled |-> amount, paidOut |-> 0,
              events |-> <<Event("TokensLocked", lockId, amount, unlockTime)>>,
              trace |-> <<"call:transferFrom", "sstore:totalLocks", "sstore:lock",
                          "sstore:userLocks", "sstore:lockedBalances",
                          "emit:TokensLocked">>]

\* the effects of an unlock in favour of the lock's owner, and the transfer
unlockTransfer(lockId, tok) ==
    LET lockInfo == locks[lockId]
        rest == CheckedSub(lockedBalances[lockInfo.owner][lockInfo.token], lockInfo.amount)
    IN  IF rest.panic THEN LockerRevert("Panic")
        ELSE IF tok = "throw" THEN LockerRevert("TokenReverted")
        ELSE IF tok = "false" THEN LockerRevert("TokenLocker: Transfer failed")
        ELSE [status |-> "ok",
              nextLockId |-> nextLockId,
              locks |-> [locks EXCEPT ![lockId].isLocked = FALSE],
              ownerLocks |-> ownerLocks,
              ownerIndex |-> ownerIndex,
              lockedBalances |-> [lockedBalances EXCEPT
                                     ![lockInfo.owner][lockInfo.token] = rest.value],
              pulled |-> 0, paidOut |-> lockInfo.amount,
              events |-> <<Event("TokensUnlocked", lockId, lockInfo.amount, 0)>>,
              trace |-> <<"sstore:isLocked", "sstore:lockedBalances",
                          "call:transfer", "emit:TokensUnlocked">>]

unlockTokens(caller, lockId, tok) ==
    LET lockInfo == locks[lockId]
    IN  IF lockInfo.owner # caller THEN LockerRevert("TokenLocker: Not the lock owner")
        ELSE IF ~lockInfo.isLocked THEN LockerRevert("TokenLocker: Lock already unlocked")
        ELSE IF now < lockInfo.unlockTime THEN LockerRevert("TokenLocker: Lock not yet expired")
        ELSE unlockTransfer(lockId, tok)

\* fault injection: the owner's unlock leaves lockedBalances as it was
emergencyUnlockNoBook(caller, lockId, tok) ==
    LET lockInfo == locks[lockId]
    IN  IF caller # OWNER THEN LockerRevert("OwnableUnauthorizedAccount")
        ELSE IF ~lockInfo.isLocked THEN LockerRevert("TokenLocker: Lock already unlocked")
        ELSE [unlockTransfer(lockId, tok) EXCEPT !.lockedBalances = lockedBalances]

emergencyUnlock(caller, lockId, tok) ==
    LET lockInfo == locks[lockId]
    IN  IF caller # OWNER THEN LockerRevert("OwnableUnauthorizedAccount")
        ELSE IF ~lockInfo.isLocked THEN LockerRevert("TokenLocker: Lock already unlocked")
        ELSE unlockTransfer(lockId, tok)

ZeroLiquidityLock ==
    [lpToken |-> ZERO, owner |-> ZERO, amount |-> 0, unlockTime |-> 0,
     isLocked |-> FALSE, lockTime |-> 0,
     token0 |-> ZERO, token1 |-> ZERO]

\* the requires of lockLiquidity before the token is pulled
lockLiquidityCheck(lpToken, amount, unlockTime, token0, token1) ==
    IF lpToken = ZERO THEN "LiquidityLocker: Invalid LP token address"
    ELSE IF amount = 0 THEN "LiquidityLocker: Amount must be greater than 0"
    ELSE IF unlockTime <= now THEN "LiquidityLocker: Unlock time must be in the future"
    ELSE IF unlockTime - now < MIN_LOCK_DURATION THEN "LiquidityLocker: Lock duration too short"
    ELSE IF unlockTime - now > MAX_LOCK_DURATION THEN "LiquidityLocker: Lock duration too long"
    ELSE IF token0 = ZERO THEN "LiquidityLocker: Invalid token0 address"
    ELSE IF token1 = ZERO THEN "LiquidityLocker: Invalid token1 address"
    ELSE "ok"

lockLiquidity(caller, lpToken, amount, unlockTime, token0, token1, tok) ==
    LET check == lockLiquidityCheck(lpToken, amount, unlockTime, token0, token1)
        lockId == nextLockId
    IN  IF check # "ok" THEN LockerRevert(check)
        ELSE IF tok = "throw" THEN LockerRevert("TokenReverted")
        ELSE IF tok = "false" THEN LockerRevert("LiquidityLocker: Transfer failed")
        ELSE [status |-> "ok",
              nextLockId |-> nextLockId + 1,
              locks |-> [locks EXCEPT ![lockId] =
                            [lpToken |-> lpToken, owner |-> caller, amount |-> amount,
                             unlockTime |-> unlockTime, isLocked |-> TRUE,
                             lockTime |-> now,
                             token0 |-> token0, token1 |-> token1]],
              ownerLocks |-> [ownerLocks EXCEPT ![caller] = Append(@, lockId)],
              ownerIndex |-> ownerIndex,
              lockedBalances |-> [lockedBalances EXCEPT ![caller][lpToken] = @ + amount],
              pulled |-> amount, paidOut |-> 0,
              events |-> <<Event("LiquidityLocked", lockId, amount, unlockTime)>>,
              trace |-> <<"call:transferFrom", "sstore:totalLocks", "sstore:lock",
                          "sstore:userLocks", "sstore:lockedBalances",
                          "emit:LiquidityLocked">>]

\* the effects of an unlock in favour of the lock's owner, and the transfer
liquidityUnlockTransfer(lockId, tok) ==
    LET lockInfo == locks[lockId]
        rest == CheckedSub(lockedBalances[lockInfo.owner][lockInfo.lpToken], lockInfo.amount)
    IN  IF rest.panic THEN LockerRevert("Panic")
        ELSE IF tok = "throw" THEN LockerRevert("TokenReverted")
        ELSE IF tok = "false" THEN LockerRevert("LiquidityLocker: Transfer failed")
        ELSE [status |-> "ok",
              nextLockId |-> nextLockId,
              locks |-> [locks EXCEPT ![lockId].isLocked = FALSE],
              ownerLocks |-> ownerLocks,
              ownerIndex |-> ownerIndex,
              lockedBalances |-> [lockedBalances EXCEPT
                                     ![lockInfo.owner][lockInfo.lpToken] = rest.value],
              pulled |-> 0, paidOut |-> lockInfo.amount,
              events |-> <<Event("LiquidityUnlocked", lockId, lockInfo.amount, 0)>>,
              trace |-> <<"sstore:isLocked", "sstore:lockedBalances",
                          "call:transfer", "emit:LiquidityUnlocked">>]

unlockLiquidity(caller, lockId, tok) ==
    LET lockInfo == locks[lockId]
    IN  IF lockInfo.owner # caller THEN LockerRevert("LiquidityLocker: Not the lock owner")
        ELSE IF ~lockInfo.isLocked THEN LockerRevert("LiquidityLocker: Lock already unlocked")
        ELSE IF now < lockInfo.unlockTime THEN LockerRevert("LiquidityLocker: Lock not yet expired")
        ELSE liquidityUnlockTransfer(lockId, tok)

liquidityEmergencyUnlock(caller, lockId, tok) ==
    LET lockInfo == locks[lockId]
    IN  IF caller # OWNER THEN LockerRevert("OwnableUnauthorizedAccount")
        ELSE IF ~lockInfo.isLocked THEN LockerRevert("LiquidityLocker: Lock already unlocked")
        ELSE liquidityUnlockTransfer(lockId, tok)

\* the unlock times a caller may ask for
UnlockTimes ==
    {MIN_LOCK_DURATION - 1, MIN_LOCK_DURATION, TickStep, 2 * TickStep,
     2 * TickStep + MIN_LOCK_DURATION}

\* lockTokens / lockLiquidity calls, and calls that fail a check or meet a
\* failing token
LegacyLockInputs ==
    [caller : Users, token : Tokens, amount : 1..MaxAmount,
     unlockTime : UnlockTimes, token0 : {TOKEN}, token1 : {TOKEN}, tok : {"ok"}]
    \cup
    [caller : {"alice"}, token : {ZERO, TOKEN}, amount : {0, 1},
     unlockTime : {0, 2 * TickStep, MAX_LOCK_DURATION + 2 * TickStep + 1},
     token0 : {ZERO, TOKEN}, token1 : {ZERO, TOKEN}, tok : TransferResults]

LegacyLockTokens ==
    /\ deployed = "Legacy"
    /\ nextLockId < LegacyMaxLocks
    /\ \E in \in LegacyLockInputs :
          LockerCommit("lockTokens", nextLockId,
                       lockTokens(in.caller, in.token, in.amount, in.unlockTime,
                                  in.tok))

LegacyUnlockTokens ==
    /\ deployed = "Legacy"
    /\ \E caller \in Users, lockId \in LegacyIds, tok \in TransferResults :
          LockerCommit("unlockTokens", lockId, unlockTokens(caller, lockId, tok))

LegacyEmergencyUnlock ==
    /\ deployed = "Legacy"
    /\ \E caller \in {OWNER, "alice"}, lockId \in LegacyIds, tok \in TransferResults :
          LockerCommit("emergencyUnlock", lockId,
                       emergencyUnlock(caller, lockId, tok))

LiquidityLockLiquidity ==
    /\ deployed = "Liquidity"
    /\ nextLockId < LegacyMaxLocks
    /\ \E in \in LegacyLockInputs :
          LockerCommit("lockLiquidity", nextLockId,
                       lockLiquidity(in.caller, in.token, in.amount, in.unlockTime,
                                     in.token0, in.token1, in.tok))

LiquidityUnlockLiquidity ==
    /\ deployed = "Liquidity"
    /\ \E caller \in Users, lockId \in LegacyIds, tok \in TransferResults :
          LockerCommit("unlockLiquidity", lockId,
                       unlockLiquidity(caller, lockId, tok))

LiquidityEmergencyUnlock ==
    /\ deployed = "Liquidity"
    /\ \E caller \in {OWNER, "alice"}, lockId \in LegacyIds, tok \in TransferResults :
          LockerCommit("emergencyUnlock", lockId,
                       liquidityEmergencyUnlock(caller, lockId, tok))

\* a freshly deployed TokenLocker or LiquidityLocker
LegacyInit ==
    /\ deployed \in {"Legacy", "Liquidity"}
    /\ now = 0
    /\ nextScheduleId = 0
    /\ schedules = <<>>
    /\ customReleases = <<>>
    /\ userSchedules = <<>>
    /\ beneficiaryVestings = <<>>
    /\ paid = [i \in LegacyIds |-> 0]
    /\ refunded = <<>>
    /\ balance = 0
    /\ lastCall = NoCall
    /\ stack = <<>>
    /\ nextLockId = 0
    /\ locks = [i \in LegacyIds |->
                   IF deployed = "Legacy" THEN ZeroLegacyLock ELSE ZeroLiquidityLock]
    /\ ownerLocks = [a \in Users |-> <<>>]
    /\ ownerIndex = <<>>
    /\ lockedBalances = [a \in Users \cup {ZERO} |-> [t \in Tokens \cup {ZERO} |-> 0]]
    /\ NoHook

LegacyNext ==
    \/ LegacyLockTokens
    \/ LegacyUnlockTokens
    \/ LegacyEmergencyUnlock
    \/ LiquidityLockLiquidity
    \/ LiquidityUnlockLiquidity
    \/ LiquidityEmergencyUnlock
    \/ Tick

LegacySpec == LegacyInit /\ [][LegacyNext]_vars

----------------------------------------------------------------------------
\* A claim or withdraw whose token calls back into the contract before the
\* transfer returns: the contracts without a reentrancy guard, with the
\* storage held as it is in the middle of the transaction

\* bound of ReentrySpec: the calls that are in progress at once
MaxDepth == 2

\* fault injection: released and the claimed flags are written after the
\* transfer, not before it
claimBeforeTransferNoEffects(caller, scheduleId) ==
    LET s == schedules[scheduleId]
        rs == customReleases[scheduleId]
        isCustom == Len(rs) > 0
        claimable == getClaimableAmount(scheduleId)
        amount == IF isCustom THEN dueUnclaimed(rs, now) ELSE claimable.value
    IN  [status |-> IF s.totalAmount = 0 THEN "InvalidSchedule"
                    ELSE IF caller # s.beneficiary THEN "NotBeneficiary"
                    ELSE IF ~isCustom /\ claimable.panic THEN "Panic"
                    ELSE IF amount = 0 THEN "NothingToRelease"
                    ELSE "ok",
         schedules |-> schedules, customReleases |-> customReleases,
         locks |-> locks,
         amount |-> IF s.totalAmount = 0 \/ caller # s.beneficiary
                       \/ (~isCustom /\ claimable.panic) THEN 0 ELSE amount]

\* PlasmaticVesting.claim up to the call of the token
claimBeforeTransfer(caller, scheduleId) ==
    LET s == schedules[scheduleId]
        rs == customReleases[scheduleId]
        isCustom == Len(rs) > 0
        claimable == getClaimableAmount(scheduleId)
        amount == IF isCustom THEN dueUnclaimed(rs, now) ELSE claimable.value
        failed(status) == [status |-> status, schedules |-> schedules,
                           customReleases |-> customReleases, locks |-> locks,
                           amount |-> 0]
    IN  IF s.totalAmount = 0 THEN failed("InvalidSchedule")
        ELSE IF caller # s.beneficiary THEN failed("NotBeneficiary")
        ELSE IF ~isCustom /\ claimable.panic THEN failed("Panic")
        ELSE IF amount = 0 THEN failed("NothingToRelease")
        ELSE [status |-> "ok",
              schedules |-> IF isCustom THEN schedules
                            ELSE [schedules EXCEPT ![scheduleId].released = @ + amount],
              customReleases |-> IF isCustom
                                 THEN [customReleases EXCEPT ![scheduleId] =
                                          markClaimed(rs, now)]
                                 ELSE customReleases,
              locks |-> locks,
              amount |-> amount]

\* PlasmaticVesting.claim after the token returned true
claimAfterTransfer(scheduleId, amount) ==
    LET s == schedules[scheduleId]
        off == claimDeactivates(s, amount)
    IN  [panic |-> claimRemaining(s, amount).panic,
         schedules |-> IF off THEN [schedules EXCEPT ![scheduleId].isActive = FALSE]
                       ELSE schedules,
         locks |-> locks, ownerLocks |-> ownerLocks, ownerIndex |-> ownerIndex]

\* VestingFactory.claim up to the call of the token
vfClaimBeforeTransfer(caller, scheduleId) ==
    LET s == schedules[scheduleId]
        amount == claimableAmount(scheduleId)
        failed(status) == [status |-> status, schedules |-> schedules,
                           customReleases |-> customReleases, locks |-> locks,
                           amount |-> 0]
    IN  IF ~(s.totalAmount > 0) THEN failed("Invalid id")
        ELSE IF caller # s.beneficiary THEN failed("Not beneficiary")
        ELSE IF ~(amount > 0) THEN failed("Nothing to claim")
        ELSE [status |-> "ok",
              schedules |-> [schedules EXCEPT ![scheduleId].released = @ + amount],
              customReleases |-> customReleases,
              locks |-> locks,
              amount |-> amount]

\* withdraw of either locker up to the call of the token
withdrawBeforeTransfer(caller, lockId) ==
    LET info == locks[lockId]
        amountToWithdraw == IF deployed = "Locker" THEN cliffWithdrawable(lockId)
                            ELSE withdrawable(lockId)
        failed(status) == [status |-> status, schedules |-> schedules,
                           customReleases |-> customReleases, locks |-> locks,
                           amount |-> 0]
    IN  IF info.owner # caller THEN failed("NotOwner")
        ELSE IF amountToWithdraw.panic THEN failed("Panic")
        ELSE IF amountToWithdraw.value = 0 THEN failed("NothingToWithdraw")
        ELSE [status |-> "ok",
              schedules |-> schedules,
              customReleases |-> customReleases,
              locks |-> [locks EXCEPT ![lockId].withdrawn =
                                          @ + amountToWithdraw.value],
              amount |-> amountToWithdraw.value]

\* PlasmaticTokenLockerV1.withdraw after the token returned true
withdrawAfterTransfer(lockId) ==
    LET info == locks[lockId]
        removed == removeFromList(ownerLocks[info.owner], ownerIndex, lockId)
    IN  IF info.withdrawn >= info.amount
        THEN [panic |-> removed.panic, schedules |-> schedules, locks |-> locks,
              ownerLocks |-> [ownerLocks EXCEPT ![info.owner] = removed.list],
              ownerIndex |-> removed.index]
        ELSE [panic |-> FALSE, schedules |-> schedules, locks |-> locks,
              ownerLocks |-> ownerLocks, ownerIndex |-> ownerIndex]

\* the claim or withdraw of the deployed contract, in its two halves
BeforeTransfer(caller, id) ==
    IF deployed = "Lin" THEN claimBeforeTransfer(caller, id)
    ELSE IF deployed = "VF" THEN vfClaimBeforeTransfer(caller, id)
    ELSE withdrawBeforeTransfer(caller, id)

AfterTransfer(id, amount) ==
    IF deployed = "Lin" THEN claimAfterTransfer(id, amount)
    ELSE IF deployed = "LockerV1" THEN withdrawAfterTransfer(id)
    ELSE [panic |-> FALSE, schedules |-> schedules, locks |-> locks,
          ownerLocks |-> ownerLocks, ownerIndex |-> ownerIndex]

\* what the view of the deployed contract returns for an id
ViewNow(id) ==
    IF deployed = "Lin"
    THEN (IF getClaimableAmount(id).panic THEN 0 ELSE getClaimableAmount(id).value)
    ELSE IF deployed = "VF" THEN claimableAmount(id)
    ELSE IF deployed = "Locker" THEN cliffWithdrawable(id).value
    ELSE withdrawable(id).value

\* what a revert of a call restores
Saved ==
    [schedules |-> schedules, customReleases |-> customReleases, locks |-> locks,
     ownerLocks |-> ownerLocks, ownerIndex |-> ownerIndex, paid |-> paid,
     balance |-> balance]

\* a call of claim / withdraw arrives: it fails its checks and changes
\* nothing, or writes its effects and calls the token
ReentryCall(caller, id) ==
    LET en == BeforeTransfer(caller, id)
    IN  /\ schedules' = en.schedules
        /\ customReleases' = en.customReleases
        /\ locks' = en.locks
        /\ stack' = IF en.status = "ok"
                    THEN Append(stack, [id |-> id, caller |-> caller,
                                        amount |-> en.amount, entry |-> ViewNow(id),
                                        saved |-> Saved])
                    ELSE stack
        /\ UNCHANGED <<deployed, now, nextScheduleId, userSchedules,
                       beneficiaryVestings, paid, refunded, balance, lastCall,
                       nextLockId, ownerLocks, ownerIndex, lockedBalances, hookVars>>

\* a transaction starts
ReentryEnter ==
    /\ stack = <<>>
    /\ \E caller \in Users, id \in Ids : ReentryCall(caller, id)

\* the token, or the hook of the recipient it calls, calls the contract
\* again while the transfer has not returned
ReentryNested ==
    /\ stack # <<>>
    /\ Len(stack) < MaxDepth
    /\ \E caller \in Users, id \in Ids : ReentryCall(caller, id)

\* the transfer of the innermost call returns: true, and the call pays and
\* finishes; or false or a revert (its own, or one a nested call passed on),
\* and the call is undone with everything done inside it
ReentryReturn ==
    /\ stack # <<>>
    /\ \E tok \in TransferResults :
          LET f == stack[Len(stack)]
              ex == AfterTransfer(f.id, f.amount)
              done == tok = "ok" /\ ~ex.panic
          IN  /\ schedules' = IF done THEN ex.schedules ELSE f.saved.schedules
              /\ customReleases' = IF done THEN customReleases
                                   ELSE f.saved.customReleases
              /\ locks' = IF done THEN ex.locks ELSE f.saved.locks
              /\ ownerLocks' = IF done THEN ex.ownerLocks ELSE f.saved.ownerLocks
              /\ ownerIndex' = IF done THEN ex.ownerIndex ELSE f.saved.ownerIndex
              /\ paid' = IF done THEN [paid EXCEPT ![f.id] = @ + f.amount]
                         ELSE f.saved.paid
              /\ balance' = IF done THEN balance - f.amount ELSE f.saved.balance
              /\ lastCall' = IF done /\ Len(stack) = 1
                             THEN [op |-> "claim", id |-> f.id,
                                   amount |-> paid'[f.id] - f.saved.paid[f.id],
                                   events |-> <<>>, trace |-> <<>>]
                             ELSE lastCall
              /\ stack' = SubSeq(stack, 1, Len(stack) - 1)
    /\ UNCHANGED <<deployed, now, nextScheduleId, userSchedules,
                   beneficiaryVestings, refunded, nextLockId, lockedBalances,
                   hookVars>>

\* schedules and locks to claim from and withdraw
ReentryLinInputs ==
    [caller : Creators, token : {TOKEN}, beneficiary : {"bob"},
     totalAmount : 1..MaxAmount, cliffMonths : {0}, durationMonths : {1, 2},
     rs : {<<>>}, tok : {"ok"}]
    \cup
    [caller : Creators, token : {TOKEN}, beneficiary : {"bob"},
     totalAmount : {MaxAmount}, cliffMonths : {0}, durationMonths : {0},
     rs : {<<[timestamp |-> TickStep, amount |-> 1, claimed |-> FALSE],
             [timestamp |-> 2 * TickStep, amount |-> MaxAmount - 1,
              claimed |-> FALSE]>>},
     tok : {"ok"}]

ReentryLinCreate ==
    /\ deployed = "Lin"
    /\ stack = <<>>
    /\ nextScheduleId < MaxSchedules
    /\ \E in \in ReentryLinInputs :
          Commit("createSchedule", nextScheduleId + 1,
                 createSchedule(in.caller, in.token, in.beneficiary, in.totalAmount,
                                in.cliffMonths, in.durationMonths, in.rs, in.tok))
    /\ UNCHANGED <<deployed, now, paid>>

ReentryVFCreate ==
    /\ deployed = "VF"
    /\ stack = <<>>
    /\ nextScheduleId < MaxSchedules
    /\ \E totalAmount \in 1..MaxAmount, durationMonths \in {1, 2},
          releaseMode \in {Linear, Step} :
          Commit("createSchedule", nextScheduleId + 1,
                 vfCreateSchedule("alice", "bob", totalAmount, 0, durationMonths,
                                  releaseMode, "ok"))
    /\ UNCHANGED <<deployed, now, paid>>

ReentryV1Lock ==
    /\ deployed = "LockerV1"
    /\ stack = <<>>
    /\ nextLockId < MaxSchedules
    /\ \E amount \in 1..MaxAmount, lockUntil \in {TickStep, 2 * TickStep} :
          LockerCommit("lock", nextLockId + 1,
                       lock("bob", TOKEN, amount, lockUntil, feeAmount, TRUE, "ok"))

ReentryCliffLock ==
    /\ deployed = "Locker"
    /\ stack = <<>>
    /\ nextLockId < MaxSchedules
    /\ \E amount \in {1, MaxAmount + 1}, lockUntil \in {TickStep, 2 * TickStep},
          cliff \in {0, 1} :
          LockerCommit("lock", nextLockId + 1,
                       cliffLock("bob", TOKEN, amount, lockUntil, cliff, "ok"))

\* a later block, between transactions
ReentryTick == stack = <<>> /\ Tick

\* a freshly deployed contract without a reentrancy guard
ReentryInit ==
    /\ deployed \in {"Lin", "VF", "LockerV1", "Locker"}
    /\ now = 0
    /\ nextScheduleId = 0
    /\ schedules = [i \in Ids |-> ZeroSchedule(IF deployed = "Lin" THEN "Lin" ELSE "VF")]
    /\ customReleases = [i \in Ids |-> <<>>]
    /\ userSchedules = [a \in Users |-> <<>>]
    /\ beneficiaryVestings = [a \in Users |-> <<>>]
    /\ paid = [i \in Ids |-> 0]
    /\ refunded = [i \in Ids |-> 0]
    /\ balance = 0
    /\ lastCall = NoCall
    /\ stack = <<>>
    /\ nextLockId = 0
    /\ locks = [i \in LockIds |->
                   IF deployed = "Locker" THEN ZeroCliffLock ELSE ZeroLock]
    /\ ownerLocks = [a \in Users |-> <<>>]
    /\ ownerIndex = [i \in LockIds |-> 0]
    /\ lockedBalances = <<>>
    /\ NoHook

ReentryNext ==
    \/ ReentryLinCreate
    \/ ReentryVFCreate
    \/ ReentryV1Lock
    \/ ReentryCliffLock
    \/ ReentryEnter
    \/ ReentryNested
    \/ ReentryReturn
    \/ ReentryTick

ReentrySpec == ReentryInit /\ [][ReentryNext]_vars

----------------------------------------------------------------------------
\* The React hook useMyLocks: one effect keyed on [address, client]; each
\* run of the effect starts an asynchronous run() with a cancelled flag of
\* its own, which the cleanup of the effect sets

\* bound of HookSpec: the run() calls whose reads are pending at once
MaxRuns == 3

\* what useAccount and usePublicClient may return
Wallets == {"undefined", "alice", "bob"}

Clients == {"undefined", "client"}

\* the list a run that read everything hands to setLocks: the locks of the
\* address it was started for, none or one
ReadResults(a) == {<<>>, <<a>>}

\* the body of run() up to its first await, for the new address and client
runStart(newAddress, newClient, cancelledRuns) ==
    IF newAddress = "undefined" \/ newClient = "undefined"
    THEN [myLocks |-> <<>>, loading |-> loading, error |-> error,
          runs |-> cancelledRuns]
    ELSE [myLocks |-> myLocks, loading |-> TRUE, error |-> "null",
          runs |-> Append(cancelledRuns,
                          [address |-> newAddress, cancelled |-> FALSE])]

\* address or client changes: the cleanup of the effect in place sets its
\* cancelled flag, then the effect runs again and calls run()
HookChange ==
    /\ deployed = "Hook"
    /\ \E newAddress \in Wallets, newClient \in Clients :
          LET cancelledRuns == [i \in 1..Len(runs) |->
                                   [runs[i] EXCEPT !.cancelled = TRUE]]
              started == runStart(newAddress, newClient, cancelledRuns)
          IN  /\ <<newAddress, newClient>> # <<address, client>>
              /\ Len(started.runs) <= MaxRuns
              /\ address' = newAddress
              /\ client' = newClient
              /\ runs' = started.runs
              /\ myLocks' = started.myLocks
              /\ loading' = started.loading
              /\ error' = started.error
    /\ UNCHANGED <<now, nextScheduleId, schedules, customReleases,
                   userSchedules, beneficiaryVestings, paid, refunded, balance,
                   lastCall, stack, lockerVars, deployed>>

\* the sequence without its i-th element
RemoveAt(seq, i) == SubSeq(seq, 1, i - 1) \o SubSeq(seq, i + 1, Len(seq))

\* the tail of run(): the last await of a run resolves or a read rejects;
\* setLocks / setError and setLoading(false) only if not cancelled
runFinish(run, outcome, result) ==
    IF run.cancelled
    THEN [myLocks |-> myLocks, loading |-> loading, error |-> error]
    ELSE IF outcome = "resolved"
    THEN [myLocks |-> result, loading |-> FALSE, error |-> error]
    ELSE [myLocks |-> myLocks, loading |-> FALSE, error |-> "message"]

\* the pending reads of one run complete
HookComplete ==
    /\ deployed = "Hook"
    /\ \E i \in 1..Len(runs), outcome \in {"resolved", "rejected"} :
          \E result \in ReadResults(runs[i].address) :
              LET finished == runFinish(runs[i], outcome, result)
              IN  /\ runs' = RemoveAt(runs, i)
                  /\ myLocks' = finished.myLocks
                  /\ loading' = finished.loading
                  /\ error' = finished.error
    /\ UNCHANGED <<address, client, now, nextScheduleId, schedules, customReleases,
                   userSchedules, beneficiaryVestings, paid, refunded, balance,
                   lastCall, stack, lockerVars, deployed>>

\* the component is mounted with no wallet: the first run() returned at once
HookInit ==
    /\ deployed = "Hook"
    /\ now = 0
    /\ nextScheduleId = 0
    /\ schedules = <<>>
    /\ customReleases = <<>>
    /\ userSchedules = <<>>
    /\ beneficiaryVestings = <<>>
    /\ paid = <<>>
    /\ refunded = <<>>
    /\ balance = 0
    /\ lastCall = NoCall
    /\ stack = <<>>
    /\ NoLocker
    /\ NoHook

HookNext ==
    \/ HookChange
    \/ HookComplete

\* every pending read resolves or rejects in the end; the wallet and the
\* client change when the user makes them, or never
HookSpec == HookInit /\ [][HookNext]_vars /\ WF_vars(HookComplete)

----------------------------------------------------------------------------
\* Properties

Created(id) == id <= nextScheduleId

IsCustom(id) == Len(customReleases[id]) > 0

\* the storage an outcome leaves is the storage as it is
NoEffect(out) ==
    /\ out.nextScheduleId = nextScheduleId
    /\ out.schedules = schedules
    /\ out.customReleases = customReleases
    /\ out.userSchedules = userSchedules
    /\ out.events = <<>>
    /\ out.amount = 0

\* claim of the deployed contract
ClaimOutcome(caller, id, tok) ==
    IF deployed = "Lin" THEN claim(caller, id, tok)
    ELSE IF deployed = "Step" THEN stepClaim(caller, id, tok)
    ELSE vfClaim(caller, id, tok)

\* C1: in every variant, every schedule has 0 <= released <= totalAmount and
\* the escrow has paid out no more than totalAmount for it.
C1_Conservation ==
    \A id \in Ids :
        /\ 0 <= schedules[id].released
        /\ schedules[id].released <= schedules[id].totalAmount
        /\ paid[id] <= schedules[id].totalAmount

\* a schedule of the largest amount paid out in full by more than one claim
C1_Witness ==
    \E id \in Ids :
        /\ schedules[id].totalAmount = MaxAmount
        /\ paid[id] = MaxAmount
        /\ schedules[id].released = MaxAmount
        /\ lastCall.op = "claim" /\ lastCall.id = id /\ lastCall.amount < MaxAmount

\* C2: a created Linear or Step schedule (of a positive amount) is active
\* exactly while released < totalAmount.
C2_ActiveIffUnreleased ==
    deployed \in {"Lin", "Step"} =>
        \A id \in Ids :
            (Created(id) /\ ~IsCustom(id) /\ schedules[id].totalAmount > 0) =>
                (schedules[id].isActive
                    <=> schedules[id].released < schedules[id].totalAmount)

\* C3: a claim by the beneficiary of a Linear schedule at or after
\* start + duration, with released < totalAmount and a paying token,
\* succeeds and leaves released = totalAmount.
C3_ClaimAtEndPaysInFull ==
    deployed = "Lin" =>
        \A id \in Ids :
            LET s == schedules[id]
                out == claim(s.beneficiary, id, "ok")
            IN  (/\ Created(id) /\ ~IsCustom(id)
                 /\ now >= s.start + s.durationMonths * SECONDS_PER_MONTH
                 /\ s.released < s.totalAmount)
                => (out.status = "ok"
                    /\ out.schedules[id].released = s.totalAmount)

\* C4: a committed claim logs exactly one TokensReleased, whose amount is the
\* amount transferred and whose remaining is totalAmount minus released as
\* the claim left it; and no claim fails in computing it.
C4_ReleaseEvent ==
    deployed \in {"Lin", "Step"} =>
        /\ lastCall.op = "claim" =>
              /\ Len(lastCall.events) = 1
              /\ lastCall.events[1].name = "TokensReleased"
              /\ lastCall.events[1].amount = lastCall.amount
              /\ lastCall.events[1].remaining =
                    schedules[lastCall.id].totalAmount - schedules[lastCall.id].released
        /\ \A caller \in Users, id \in Ids :
              ClaimOutcome(caller, id, "ok").status # "Panic"

\* C5: in a committed claim no storage write follows the outbound transfer.
C5_EffectsBeforeTransfer ==
    (deployed \in {"Lin", "Step"} /\ lastCall.op = "claim") =>
        \A i, j \in 1..Len(lastCall.trace) :
            (lastCall.trace[i] = "call:transfer" /\ i < j) =>
                lastCall.trace[j] \notin {"sstore:released", "sstore:claimed",
                                           "sstore:isActive"}

\* C6: a claim whose outbound transfer fails (false or throw) is not
\* committed: the storage is as before, nothing is logged or paid, and the
\* same claim with a paying token still obtains what it would have.
C6_TransferFailureNoEffect ==
    \A caller \in Users, id \in Ids, tok \in {"false", "throw"} :
        LET out == ClaimOutcome(caller, id, tok)
        IN  /\ out.status # "ok"
            /\ NoEffect(out)
            /\ ClaimOutcome(caller, id, "ok").status = "ok" =>
                  out.status \in {"TransferFailed", "SafeERC20FailedOperation",
                                  "TRANSFER_FAILED", "TokenReverted"}

\* after an earlier claim was paid, a claim that reaches a failing transfer
C6_Witness ==
    \E id \in Ids :
        /\ paid[id] > 0
        /\ ClaimOutcome(schedules[id].beneficiary, id, "ok").status = "ok"
        /\ ClaimOutcome(schedules[id].beneficiary, id, "false").status
              \in {"TransferFailed", "SafeERC20FailedOperation", "TRANSFER_FAILED"}

C8_NoDoubleClaim ==
    (deployed \in {"Lin", "Step"} /\ lastCall.op = "claim") =>
        \A tok \in TransferResults :
            LET out == ClaimOutcome(schedules[lastCall.id].beneficiary,
                                    lastCall.id, tok)
            IN  out.status = "NothingToRelease" /\ NoEffect(out)

\* a committed claim on a custom list that still holds an entry not yet due
C8_Witness ==
    /\ deployed = "Lin"
    /\ lastCall.op = "claim"
    /\ IsCustom(lastCall.id)
    /\ \E i \in 1..Len(customReleases[lastCall.id]) :
          ~customReleases[lastCall.id][i].claimed

\* C9: claim of an id never created fails with InvalidSchedule, claim of a
\* created schedule by anyone but its beneficiary fails with NotBeneficiary,
\* and neither changes anything.
C9_ClaimAuthorization ==
    deployed \in {"Lin", "Step"} =>
        \A caller \in Users, id \in Ids, tok \in TransferResults :
            LET out == ClaimOutcome(caller, id, tok)
            IN  /\ ~Created(id) => (out.status = "InvalidSchedule" /\ NoEffect(out))
                /\ (Created(id) /\ caller # schedules[id].beneficiary) =>
                      (out.status = "NotBeneficiary" /\ NoEffect(out))

\* the release formula of the schedule's mode at time t
Vested(s, t) ==
    IF deployed = "Lin"
    THEN IF t < s.start + s.cliffMonths * SECONDS_PER_MONTH THEN 0
         ELSE IF t >= s.start + s.durationMonths * SECONDS_PER_MONTH THEN s.totalAmount
         ELSE linearVested(s, t)
    ELSE IF deployed = "Step"
    THEN IF t < s.cliffEnd THEN 0 ELSE stepVested(s, t)
    ELSE vestedAmount(s, t)

ClaimableNow(id) ==
    IF deployed = "Lin" THEN getClaimableAmount(id).value
    ELSE IF deployed = "Step" THEN stepGetClaimableAmount(id)
    ELSE claimableAmount(id)

\* C10: for every created Linear or Step schedule, what is claimable now
\* plus what was released is what has vested now.
C10_ClaimablePlusReleased ==
    \A id \in Ids :
        (Created(id) /\ ~IsCustom(id)) =>
            ClaimableNow(id) + schedules[id].released = Vested(schedules[id], now)

\* cliffEnd and end of a stored schedule
CliffEndOf(s) ==
    IF deployed = "Step" THEN s.cliffEnd
    ELSE s.start + s.cliffMonths * SECONDS_PER_MONTH

EndOf(s) ==
    IF deployed = "Step" THEN s.start + s.duration
    ELSE s.start + s.durationMonths * SECONDS_PER_MONTH

\* a created Linear or Step schedule nothing was claimed of: what is
\* claimable of it is what has vested
Unclaimed(id) ==
    /\ Created(id) /\ ~IsCustom(id)
    /\ schedules[id].released = 0
    /\ deployed \in {"Lin", "Step"} => schedules[id].isActive

\* C11: for every Linear or Step schedule with cliff < duration, the vested
\* amount is 0 at every time before cliffEnd and totalAmount at every time
\* from end = start + duration on.
C11_VestedBoundaries ==
    \A id \in Ids :
        LET s == schedules[id]
        IN  (Unclaimed(id) /\ CliffEndOf(s) < EndOf(s)) =>
                /\ now < CliffEndOf(s) => ClaimableNow(id) = 0
                /\ now >= EndOf(s) => ClaimableNow(id) = s.totalAmount

\* C12: for a Linear schedule and cliffEnd <= now < end, the vested amount
\* is floor(totalAmount * (now - cliffEnd) / (end - cliffEnd)).
C12_LinearFormula ==
    deployed \in {"Lin", "VF"} =>
        \A id \in Ids :
            LET s == schedules[id]
            IN  (/\ Unclaimed(id)
                 /\ deployed = "VF" => s.mode = Linear
                 /\ CliffEndOf(s) <= now /\ now < EndOf(s))
                => ClaimableNow(id) =
                      (s.totalAmount * (now - CliffEndOf(s)))
                          \div (EndOf(s) - CliffEndOf(s))

\* a Linear schedule with a cliff, part of the way from cliffEnd to end, at
\* a time where the division is not exact
C12_Witness ==
    /\ deployed \in {"Lin", "VF"}
    /\ \E id \in Ids :
          LET s == schedules[id]
          IN  /\ Unclaimed(id)
              /\ deployed = "VF" => s.mode = Linear
              /\ s.cliffMonths > 0
              /\ CliffEndOf(s) < now /\ now < EndOf(s)
              /\ (s.totalAmount * (now - CliffEndOf(s)))
                    % (EndOf(s) - CliffEndOf(s)) # 0
              /\ ClaimableNow(id) > 0

\* C13: for a Step schedule at now >= cliffEnd, the vested amount is
\* basePerStep * m + min(m, remainder) with
\* m = min(totalSteps, 1 + floor((now - cliffEnd) / interval)); once
\* m = totalSteps it is exactly totalAmount.
C13_StepFormula ==
    deployed = "Step" =>
        \A id \in Ids :
            LET s == schedules[id]
                totalSteps == s.duration \div s.interval
                reached == 1 + ((now - s.cliffEnd) \div s.interval)
                m == IF reached < totalSteps THEN reached ELSE totalSteps
                basePerStep == s.totalAmount \div totalSteps
                remainder == s.totalAmount % totalSteps
            IN  (Unclaimed(id) /\ now >= s.cliffEnd) =>
                    /\ ClaimableNow(id) =
                          basePerStep * m + (IF m < remainder THEN m ELSE remainder)
                    /\ m = totalSteps => ClaimableNow(id) = s.totalAmount

\* VestMaxAmount over three steps, at the second step: two thirds rounded up
C13_Witness ==
    /\ deployed = "Step"
    /\ \E id \in Ids :
          LET s == schedules[id]
          IN  /\ Unclaimed(id)
              /\ s.totalAmount = VestMaxAmount
              /\ s.duration = 3 * s.interval
              /\ now = s.cliffEnd + s.interval
              /\ ClaimableNow(id) = 2 * (VestMaxAmount \div 3)
                                      + (IF VestMaxAmount % 3 > 2 THEN 2
                                         ELSE VestMaxAmount % 3)

\* C14: for every Linear or Step schedule of a positive amount with
\* cliff < duration, the vested amount is less than totalAmount at every
\* time before start + duration and is totalAmount from then on.
C14_DurationIsFullVesting ==
    \A id \in Ids :
        LET s == schedules[id]
        IN  (Unclaimed(id) /\ s.totalAmount > 0 /\ CliffEndOf(s) < EndOf(s)) =>
                /\ now < EndOf(s) => ClaimableNow(id) < s.totalAmount
                /\ now >= EndOf(s) => ClaimableNow(id) = s.totalAmount

\* the sum of the amounts of the schedules first..last
RECURSIVE SumTotals(_, _)
SumTotals(first, last) ==
    IF first > last THEN 0
    ELSE schedules[first].totalAmount + SumTotals(first + 1, last)

\* C15: createSchedulesEqual stores for the recipient at 0-based index i
\* the share floor(totalAmount / n), plus 1 if i < totalAmount mod n; the
\* shares sum to totalAmount; the page's split gives the same amounts.
C15_EqualSplit ==
    (deployed = "Step" /\ lastCall.op = "createSchedulesEqual") =>
        LET n == Len(lastCall.events)
            totalAmount == lastCall.amount
            first == lastCall.id
        IN  /\ \A i \in 0..(n - 1) :
                  /\ schedules[first + i].totalAmount =
                        (totalAmount \div n) + (IF i < totalAmount % n THEN 1 ELSE 0)
                  /\ pageAmounts(totalAmount, n)[i + 1] = schedules[first + i].totalAmount
            /\ SumTotals(first, first + n - 1) = totalAmount
            /\ Len(pageAmounts(totalAmount, n)) = n

\* VestMaxAmount split among MaxBatch recipients with a remainder
C15_Witness ==
    /\ deployed = "Step"
    /\ lastCall.op = "createSchedulesEqual"
    /\ Len(lastCall.events) = MaxBatch
    /\ lastCall.amount = VestMaxAmount
    /\ VestMaxAmount % MaxBatch # 0
    /\ schedules[1].totalAmount = schedules[MaxBatch].totalAmount + 1

\* how often a tag occurs in a trace
RECURSIVE Count(_, _)
Count(trace, tag) ==
    IF trace = <<>> THEN 0
    ELSE (IF trace[1] = tag THEN 1 ELSE 0) + Count(Tail(trace), tag)

\* C16: createSchedulesEqual fails with no effect for no recipient and for
\* more than 20; a call that succeeds has 1..20 recipients, pulls the whole
\* totalAmount in one transfer, and stores one schedule per recipient, with
\* consecutive ids in recipient order and the same start (= now),
\* cliffEnd, duration and interval.
C16_EqualBatch ==
    deployed = "Step" =>
        \A recipients \in VestRecipientLists, totalAmount \in {1, VestMaxAmount},
           cliffSeconds \in {0, VestTickStep},
           durationSeconds \in {VestTickStep, 2 * VestTickStep},
           tok \in TransferResults :
            LET n == Len(recipients)
                out == createSchedulesEqual("alice", TOKEN, recipients, totalAmount,
                                            cliffSeconds, durationSeconds,
                                            VestTickStep, tok)
            IN  /\ (n = 0 \/ n > 20) => (out.status # "ok" /\ NoEffect(out))
                /\ (out.status = "ok" /\ nextScheduleId + n <= MaxBatch) =>
                      /\ 1 <= n /\ n <= 20
                      /\ Count(out.trace, "call:transferFrom") = 1
                      /\ out.amount = totalAmount
                      /\ out.nextScheduleId = nextScheduleId + n
                      /\ Count(out.trace, "sstore:schedule") = n
                      /\ \A id \in Ids :
                            id <= nextScheduleId => out.schedules[id] = schedules[id]
                      /\ \A id \in Ids :
                            id > nextScheduleId + n => out.schedules[id] = schedules[id]
                      /\ \A i \in 1..n :
                            LET s == out.schedules[nextScheduleId + i]
                            IN  /\ s.beneficiary = recipients[i]
                                /\ s.start = now
                                /\ s.cliffEnd = now + cliffSeconds
                                /\ s.duration = durationSeconds
                                /\ s.interval = VestTickStep
                                /\ s.released = 0 /\ s.isActive

\* a batch of MaxBatch schedules was created, and a list of 21 recipients
\* is turned away
C16_Witness ==
    /\ deployed = "Step"
    /\ lastCall.op = "createSchedulesEqual"
    /\ Len(lastCall.events) = MaxBatch
    /\ nextScheduleId = MaxBatch
    /\ \A id \in 1..MaxBatch : schedules[id].start = schedules[1].start
    /\ createSchedulesEqual("alice", TOKEN, [i \in 1..(MAX_RECIPIENTS + 1) |-> "bob"],
                            1, 0, VestTickStep, VestTickStep, "ok").status
          = "TooManyRecipients"

\* C17: every stored schedule has totalAmount > 0, and a claim by its
\* beneficiary is never turned away as InvalidSchedule.
C17_PositiveTotals ==
    deployed \in {"Lin", "Step"} =>
        \A id \in Ids :
            Created(id) =>
                /\ schedules[id].totalAmount > 0
                /\ \A tok \in TransferResults :
                      ClaimOutcome(schedules[id].beneficiary, id, tok).status
                          # "InvalidSchedule"

\* C18: every stored Linear or Step schedule has cliff < duration, that is
\* cliffEnd < start + duration.
C18_CliffBeforeEnd ==
    \A id \in Ids :
        (Created(id) /\ ~IsCustom(id)) =>
            CliffEndOf(schedules[id]) < EndOf(schedules[id])

\* a custom list createSchedule must turn away
BadCustomList(rs, totalAmount) ==
    \/ \E i \in 1..Len(rs) : rs[i].claimed
    \/ \E i \in 2..Len(rs) : rs[i].timestamp <= rs[i - 1].timestamp
    \/ SumAmounts(rs) # totalAmount

\* C19: createSchedule with a non-empty custom list that holds a
\* pre-claimed entry, or a timestamp not above the previous one, or amounts
\* that do not sum to totalAmount, fails with InvalidCustomSchedule, pulls
\* nothing and creates nothing; with any other list and a paying token it
\* succeeds and stores the list, unclaimed.
C19_CustomListValidation ==
    deployed = "Lin" =>
        \A rs \in VestCustomLists, totalAmount \in 1..4, tok \in TransferResults :
            LET out == createSchedule("alice", TOKEN, "bob", totalAmount, 0, 0, rs, tok)
            IN  /\ BadCustomList(rs, totalAmount) =>
                      /\ out.status = "InvalidCustomSchedule"
                      /\ NoEffect(out)
                      /\ Count(out.trace, "call:transferFrom") = 0
                /\ (~BadCustomList(rs, totalAmount) /\ tok = "ok") =>
                      /\ out.status = "ok"
                      /\ out.nextScheduleId = nextScheduleId + 1
                      /\ out.amount = totalAmount
                      /\ nextScheduleId < MaxBatch =>
                            /\ out.customReleases[nextScheduleId + 1] = rs
                            /\ out.schedules[nextScheduleId + 1].totalAmount = totalAmount

\* a custom schedule of two entries was created; a list whose amounts do
\* not sum to the total, one out of order and one pre-claimed are turned away
C19_Witness ==
    /\ deployed = "Lin"
    /\ lastCall.op = "createSchedule"
    /\ Len(customReleases[1]) = 2
    /\ \E rs \in VestCustomLists :
          /\ Len(rs) = 2 /\ ~rs[1].claimed /\ ~rs[2].claimed
          /\ rs[1].timestamp < rs[2].timestamp
          /\ SumAmounts(rs) # 4
          /\ createSchedule("alice", TOKEN, "bob", 4, 0, 0, rs, "ok").status
                = "InvalidCustomSchedule"

\* C20: the entry list of a Custom schedule keeps its length, timestamps
\* and amounts; a claimed flag only goes from false to true, and only in a
\* committed claim of that schedule at a time >= the entry's timestamp; so
\* the amounts sum to totalAmount and the timestamps increase in every state.
C20_CustomListImmutable ==
    /\ [](\A id \in Ids :
            (Created(id) /\ IsCustom(id)) =>
                /\ SumAmounts(customReleases[id]) = schedules[id].totalAmount
                /\ \A i \in 2..Len(customReleases[id]) :
                      customReleases[id][i - 1].timestamp
                          < customReleases[id][i].timestamp)
    /\ [][\A id \in Ids :
            (Created(id) /\ IsCustom(id)) =>
                /\ Len(customReleases'[id]) = Len(customReleases[id])
                /\ \A i \in 1..Len(customReleases[id]) :
                      LET e == customReleases[id][i]
                          f == customReleases'[id][i]
                      IN  /\ f.timestamp = e.timestamp
                          /\ f.amount = e.amount
                          /\ e.claimed => f.claimed
                          /\ (~e.claimed /\ f.claimed) =>
                                /\ lastCall'.op = "claim"
                                /\ lastCall'.id = id
                                /\ lastCall' # lastCall \/ paid' # paid
                                /\ e.timestamp <= now]_vars

\* a list of two entries, the first claimed and paid, the second not yet due
C20_Witness ==
    /\ deployed = "Lin"
    /\ \E id \in Ids :
          /\ Created(id)
          /\ Len(customReleases[id]) = 2
          /\ customReleases[id][1].claimed
          /\ ~customReleases[id][2].claimed
          /\ customReleases[id][2].timestamp > now
          /\ paid[id] = customReleases[id][1].amount
          /\ paid[id] > 0

\* the amounts of the claimed entries of a list, and of those due and unclaimed
ClaimedSum(rs) == SumAmounts(SelectSeq(rs, LAMBDA e : e.claimed))

DueSum(rs, t) == SumAmounts(SelectSeq(rs, LAMBDA e : ~e.claimed /\ e.timestamp <= t))

\* C21: a committed claim on a Custom schedule transfers the sum of the
\* entries with timestamp <= now and claimed = false, which is what
\* getClaimableAmount returns then, and marks exactly those entries; what
\* was paid for the schedule is always the sum of its claimed entries.
C21_CustomClaim ==
    /\ [](\A id \in Ids :
            (Created(id) /\ IsCustom(id)) =>
                paid[id] = ClaimedSum(customReleases[id]))
    /\ [][\A id \in Ids :
            (Created(id) /\ IsCustom(id) /\ paid'[id] # paid[id]) =>
                LET rs == customReleases[id]
                IN  /\ paid'[id] - paid[id] = DueSum(rs, now)
                    /\ lastCall'.amount = DueSum(rs, now)
                    /\ getClaimableAmount(id) = Ok(DueSum(rs, now))
                    /\ Len(customReleases'[id]) = Len(rs)
                    /\ \A i \in 1..Len(rs) :
                          customReleases'[id][i].claimed
                              = (rs[i].claimed \/ rs[i].timestamp <= now)]_vars

\* a list of two entries, both of a positive amount, claimed in two claims
C21_Witness ==
    /\ deployed = "Lin"
    /\ lastCall.op = "claim"
    /\ LET rs == customReleases[lastCall.id]
       IN  /\ Len(rs) = 2
           /\ rs[1].claimed /\ rs[2].claimed
           /\ rs[1].amount > 0
           /\ lastCall.amount = rs[2].amount
           /\ paid[lastCall.id] = rs[1].amount + rs[2].amount

\* C22: a Custom schedule's released is the sum of its claimed entries, and
\* once every entry is claimed released = totalAmount and isActive = false.
C22_CustomReleased ==
    \A id \in Ids :
        (Created(id) /\ IsCustom(id)) =>
            LET rs == customReleases[id]
            IN  /\ schedules[id].released = ClaimedSum(rs)
                /\ (\A i \in 1..Len(rs) : rs[i].claimed) =>
                      /\ schedules[id].released = schedules[id].totalAmount
                      /\ ~schedules[id].isActive

\* the ids a list holds
IdsOf(list) == {list[i] : i \in 1..Len(list)}

\* C24: getUserSchedules(a) lists, in increasing id order, the ids of
\* exactly the schedules whose creator or beneficiary is a (every schedule
\* of the model is created by the one address of Creators).
C24_UserSchedulesInOrder ==
    deployed \in {"Lin", "Step"} =>
        \A a \in Users :
            /\ \A i \in 2..Len(userSchedules[a]) :
                  userSchedules[a][i - 1] < userSchedules[a][i]
            /\ IdsOf(userSchedules[a]) =
                  {id \in Ids : Created(id)
                                /\ (schedules[id].beneficiary = a \/ a \in Creators)}

\* what was released of a schedule: for Custom, the amount of its claimed entries
Released(id) ==
    IF deployed = "Lin" /\ IsCustom(id) THEN ClaimedSum(customReleases[id])
    ELSE schedules[id].released

\* C26: time does not go back, a schedule's released amount never
\* decreases, and it increases only in a committed claim of that schedule,
\* by exactly the amount transferred.
C26_ReleasedMonotone ==
    [][/\ now' >= now
       /\ \A id \in Ids :
            /\ Released(id)' >= Released(id)
            /\ Released(id)' - Released(id) = paid'[id] - paid[id]
            /\ Released(id)' > Released(id) =>
                  /\ lastCall'.op = "claim"
                  /\ lastCall'.id = id
                  /\ lastCall'.amount = Released(id)' - Released(id)]_vars

\* a second claim of a VestingFactory schedule, at a later time
C26_Witness ==
    /\ deployed = "VF"
    /\ lastCall.op = "claim"
    /\ schedules[lastCall.id].released > lastCall.amount
    /\ paid[lastCall.id] = schedules[lastCall.id].released
    /\ now > schedules[lastCall.id].start

\* the fields of a schedule record that no claim writes
FixedFields(s) == DOMAIN s \ {"released", "isActive"}

SameFixedFields(s, t) ==
    /\ DOMAIN s = DOMAIN t
    /\ \A f \in FixedFields(s) : s[f] = t[f]

\* C27: a committed claim(id) leaves nextScheduleId, every userSchedules
\* list, every other schedule and its entries as they were, and of schedule
\* id changes only released, isActive and the claimed flags of its entries;
\* and no step removes a created schedule or rewrites its other fields.
C27_ClaimFrame ==
    [][/\ \A id \in Ids :
            Created(id) => /\ Created(id)'
                           /\ SameFixedFields(schedules[id], schedules'[id])
       /\ \A id \in Ids :
            paid'[id] # paid[id] =>
                /\ nextScheduleId' = nextScheduleId
                /\ userSchedules' = userSchedules
                /\ SameFixedFields(schedules[id], schedules'[id])
                /\ Len(customReleases'[id]) = Len(customReleases[id])
                /\ \A i \in 1..Len(customReleases[id]) :
                      /\ customReleases'[id][i].timestamp
                            = customReleases[id][i].timestamp
                      /\ customReleases'[id][i].amount = customReleases[id][i].amount
                /\ \A other \in Ids \ {id} :
                      /\ schedules'[other] = schedules[other]
                      /\ customReleases'[other] = customReleases[other]
                      /\ paid'[other] = paid[other]]_vars

\* a claim of one schedule while another, a Custom one, is still unclaimed
C27_Witness ==
    /\ deployed = "Lin"
    /\ nextScheduleId = 2
    /\ lastCall.op = "claim"
    /\ \E other \in Ids \ {lastCall.id} :
          /\ Created(other) /\ IsCustom(other)
          /\ paid[other] = 0
          /\ schedules[other].isActive

\* C25: getClaimableAmount(id) fails for no id, created or not, in no
\* state and at no time, an overflow of its products and sums included.
C25_GetClaimableNeverFails ==
    \A id \in Ids :
        /\ deployed = "Lin" =>
              /\ ~getClaimableAmountFails(schedules[id], customReleases[id], now)
              /\ ~Created(id) => getClaimableAmount(id) = Ok(0)
        /\ deployed = "Step" =>
              /\ ~stepGetClaimableAmountFails(schedules[id], now)
              /\ ~Created(id) => stepGetClaimableAmount(id) = 0

\* C23: ids start at 1 and every committed creation uses the next
\* integers: the first id it assigns is one above the ids assigned before,
\* and the counter ends at the last id it assigned.
C23_IdsFromOne ==
    lastCall.op \in {"createSchedule", "createSchedulesEqual", "createVesting"} =>
        /\ lastCall.id >= 1
        /\ lastCall.id + Len(lastCall.events) - 1 = nextScheduleId

\* a vesting of the factory that was created and is no longer active
Revoked(id) == id < nextScheduleId /\ ~schedules[id].isActive

\* the storage and the ledger an outcome of the factory leaves are as they are
FactoryNoEffect(out) ==
    /\ out.totalVestings = nextScheduleId
    /\ out.vestingSchedules = schedules
    /\ out.userVestings = userSchedules
    /\ out.beneficiaryVestings = beneficiaryVestings
    /\ out.pulled = 0 /\ out.toBeneficiary = 0 /\ out.toCreator = 0 /\ out.toOwner = 0
    /\ out.events = <<>>

\* C28: revokeVesting(id) succeeds only for the creator of an active
\* vesting; a revoked vesting stays as it is for ever, every
\* releaseVested(id) and revokeVesting(id) on it fails, and
\* getReleasableAmount(id) is 0.
C28_RevokeIsFinal ==
    /\ [](\A caller \in Users, id \in FactoryIds,
             tokBeneficiary \in TransferResults, tokCreator \in TransferResults :
            LET revoke == revokeVesting(caller, id, tokBeneficiary, tokCreator)
                release == releaseVested(caller, id, tokBeneficiary)
            IN  /\ revoke.status = "ok" =>
                      (caller = schedules[id].creator /\ schedules[id].isActive)
                /\ Revoked(id) =>
                      /\ revoke.status # "ok" /\ FactoryNoEffect(revoke)
                      /\ release.status # "ok" /\ FactoryNoEffect(release)
                      /\ getReleasableAmount(id) = Ok(0))
    /\ [][\A id \in FactoryIds :
            Revoked(id) => (Revoked(id)' /\ schedules'[id] = schedules[id]
                            /\ paid'[id] = paid[id]
                            /\ refunded'[id] = refunded[id])]_vars

\* a vesting revoked part of the way, seen in a later block
C28_Witness ==
    /\ deployed = "Factory"
    /\ lastCall = NoCall
    /\ \E id \in FactoryIds :
          /\ Revoked(id)
          /\ paid[id] > 0 /\ refunded[id] > 0
          /\ now > schedules[id].startTime

\* C29: the step that deactivates a vesting pays the beneficiary what was
\* releasable and the creator totalAmount - released (after); from then on
\* paid + refunded = totalAmount; a revoke one of whose transfers fails
\* changes nothing.
C29_RevokeSettles ==
    /\ [](\A id \in FactoryIds :
            id < nextScheduleId =>
                /\ paid[id] = schedules[id].released
                /\ schedules[id].isActive => refunded[id] = 0
                /\ Revoked(id) => paid[id] + refunded[id] = schedules[id].totalAmount)
    /\ [](\A id \in FactoryIds,
             tokBeneficiary \in TransferResults, tokCreator \in TransferResults :
            LET out == revokeVesting(schedules[id].creator, id,
                                     tokBeneficiary, tokCreator)
                releasableAmount == getReleasableAmount(id).value
                revokedAmount == schedules[id].totalAmount - schedules[id].released
                                     - releasableAmount
            IN  (/\ id < nextScheduleId /\ schedules[id].isActive
                 /\ \/ releasableAmount > 0 /\ tokBeneficiary # "ok"
                    \/ revokedAmount > 0 /\ tokCreator # "ok")
                => (out.status # "ok" /\ FactoryNoEffect(out)))
    /\ [][\A id \in FactoryIds :
            (schedules[id].isActive /\ ~schedules'[id].isActive) =>
                /\ lastCall'.op = "revokeVesting" /\ lastCall'.id = id
                /\ paid'[id] - paid[id] = getReleasableAmount(id).value
                /\ refunded'[id] = schedules[id].totalAmount - schedules'[id].released
                /\ balance' = balance - (paid'[id] - paid[id]) - refunded'[id]]_vars

\* a revoke that made both transfers
C29_Witness ==
    /\ deployed = "Factory"
    /\ lastCall.op = "revokeVesting"
    /\ lastCall.amount > 0
    /\ refunded[lastCall.id] > 0
    /\ Count(lastCall.trace, "call:transfer") = 2

\* what the escrow still owes for the schedules first..last
RECURSIVE Owed(_, _)
Owed(first, last) ==
    IF first > last THEN 0
    ELSE (IF schedules[first].totalAmount > 0
          THEN schedules[first].totalAmount - paid[first] - refunded[first] ELSE 0)
         + Owed(first + 1, last)

\* C30: the contract's balance of the token is at least what it still owes:
\* the sum over the schedules of totalAmount minus what was paid out.
C30_EscrowBacking ==
    balance >= (IF deployed = "Factory" THEN Owed(0, MaxSchedules - 1)
                ELSE Owed(1, MaxBatch))

\* recipient lists of one to three addresses with address(0) somewhere
ZeroRecipientLists ==
    {r \in {<<a>> : a \in Addresses}
           \cup {<<a, b>> : a \in Addresses, b \in Addresses}
           \cup {<<a, b, c>> : a \in Addresses, b \in Addresses, c \in Addresses} :
        \E i \in 1..Len(r) : r[i] = ZERO}

\* calls of createSchedulesEqual with such a list: valid ones, and ones that
\* also fail another check or meet a failing token
ZeroRecipientInputs ==
    [recipients : ZeroRecipientLists, totalAmount : 1..MaxAmount,
     cliffSeconds : {0}, durationSeconds : {TickStep, 2 * TickStep},
     intervalSeconds : {TickStep}, tok : {"ok"}]
    \cup
    [recipients : {<<"bob", ZERO>>}, totalAmount : {0, 1},
     cliffSeconds : {0, TickStep}, durationSeconds : {0, TickStep},
     intervalSeconds : {0, TickStep}, tok : TransferResults]

\* C34: createSchedulesEqual with address(0) at any position of recipients
\* fails and leaves no effect (no schedule, nextScheduleId and every
\* userSchedules list as before, nothing pulled); when the call is
\* otherwise valid and the token delivers, the failure is InvalidParams.
C34_ZeroRecipientNoEffect ==
    deployed = "Step" =>
        \A in \in ZeroRecipientInputs :
            LET recipients == in.recipients
                tok == in.tok
                out == createSchedulesEqual("alice", TOKEN, recipients,
                           in.totalAmount, in.cliffSeconds, in.durationSeconds,
                           in.intervalSeconds, tok)
                passes == createSchedulesEqualCheck(TOKEN, recipients,
                              in.totalAmount, in.durationSeconds,
                              in.intervalSeconds) = "ok"
            IN  /\ out.status # "ok"
                /\ NoEffect(out)
                /\ (passes /\ tok = "ok") => out.status = "InvalidParams"

\* a store that holds a schedule already, where a valid call with
\* address(0) as the last of three recipients is refused
C34_Witness ==
    /\ deployed = "Step"
    /\ nextScheduleId = 1
    /\ userSchedules["alice"] # <<>>
    /\ createSchedulesEqual("alice", TOKEN, <<"bob", "alice", ZERO>>, 2, 0,
                            TickStep, TickStep, "ok").status = "InvalidParams"
    /\ createSchedulesEqual("alice", TOKEN, <<ZERO, "bob">>, 2, 0,
                            TickStep, TickStep, "ok").status = "InvalidParams"

\* C37: no list of userSchedules holds the same id twice.
C37_NoDuplicateIds ==
    \A a \in Users :
        \A i \in 1..Len(userSchedules[a]), j \in 1..Len(userSchedules[a]) :
            i # j => userSchedules[a][i] # userSchedules[a][j]

\* the view of the deployed contract on a schedule record; a view that
\* panics returns nothing
ViewOf(s, rs, t) ==
    IF deployed = "Lin"
    THEN (IF getClaimableAmountOf(s, rs, t).panic THEN 0
          ELSE getClaimableAmountOf(s, rs, t).value)
    ELSE IF deployed = "Step" THEN stepClaimableOf(s, t)
    ELSE claimableAmountOf(s, t)

\* C35: when the view returns a > 0 for a schedule, claim by the
\* beneficiary with a delivering token succeeds, transfers exactly a and
\* leaves a store in which the view returns 0 at the same time.
C35_ViewAndClaimAgree ==
    \A id \in Ids :
        LET a == ViewOf(schedules[id], customReleases[id], now)
            out == ClaimOutcome(schedules[id].beneficiary, id, "ok")
        IN  (Created(id) /\ a > 0) =>
                /\ out.status = "ok"
                /\ out.amount = a
                /\ ViewOf(out.schedules[id], out.customReleases[id], now) = 0

\* a lock of the locker that was created
Locked(id) == id <= nextLockId /\ locks[id].amount > 0

\* the ids a list holds
ListIds(list) == {list[k] : k \in 1..Len(list)}

\* C31: for every owner o, ownerLocks[o] has no duplicates, holds exactly
\* the ids of o's locks with withdrawn < amount, and
\* ownerLocks[o][ownerIndex[id]] = id for every id in it; no step deletes or
\* rewrites a locks[id] record, only withdrawn grows.
C31_OwnerLocksIndex ==
    /\ [](deployed = "LockerV1" =>
            \A o \in Users :
                /\ Cardinality(ListIds(ownerLocks[o])) = Len(ownerLocks[o])
                /\ ListIds(ownerLocks[o])
                     = {id \in LockIds : /\ Locked(id)
                                         /\ locks[id].owner = o
                                         /\ locks[id].withdrawn < locks[id].amount}
                /\ \A id \in ListIds(ownerLocks[o]) :
                      /\ ownerIndex[id] < Len(ownerLocks[o])
                      /\ ownerLocks[o][ownerIndex[id] + 1] = id)
    /\ [][deployed = "LockerV1" =>
            \A id \in LockIds :
                Locked(id) =>
                    /\ locks'[id].token = locks[id].token
                    /\ locks'[id].amount = locks[id].amount
                    /\ locks'[id].lockUntil = locks[id].lockUntil
                    /\ locks'[id].owner = locks[id].owner
                    /\ locks'[id].withdrawn >= locks[id].withdrawn]_vars

\* a withdraw has just moved the last id of a list into the place of an
\* earlier one
C31_Witness ==
    /\ deployed = "LockerV1"
    /\ lastCall.op = "withdraw"
    /\ \E o \in Users :
          /\ locks[lastCall.id].owner = o
          /\ Len(ownerLocks[o]) = 2
          /\ ownerLocks[o][1] > ownerLocks[o][2]
          /\ ownerIndex[ownerLocks[o][1]] = 0

\* C33: before lockUntil nothing can be withdrawn; from lockUntil on the
\* owner's first withdraw transfers the whole amount, every later withdraw
\* of the lock fails with NothingToWithdraw, and withdrawn is 0 or amount.
C33_PureTimelock ==
    /\ [](deployed = "LockerV1" =>
            \A id \in LockIds :
                Locked(id) =>
                    /\ locks[id].withdrawn \in {0, locks[id].amount}
                    /\ paid[id] = locks[id].withdrawn
                    /\ now < locks[id].lockUntil =>
                          /\ locks[id].withdrawn = 0
                          /\ withdrawable(id) = Ok(0)
                          /\ \A caller \in Users, tok \in TransferResults :
                                /\ withdraw(caller, id, tok).status # "ok"
                                /\ withdraw(caller, id, tok).paidOut = 0
                    /\ (now >= locks[id].lockUntil /\ locks[id].withdrawn = 0) =>
                          LET out == withdraw(locks[id].owner, id, "ok")
                          IN  /\ out.status = "ok"
                              /\ out.paidOut = locks[id].amount
                              /\ out.locks[id].withdrawn = locks[id].amount
                    /\ locks[id].withdrawn = locks[id].amount =>
                          \A tok \in TransferResults :
                              /\ withdraw(locks[id].owner, id, tok).status
                                    = "NothingToWithdraw"
                              /\ withdraw(locks[id].owner, id, tok).paidOut = 0)
    /\ [][deployed = "LockerV1" =>
            \A id \in LockIds :
                paid'[id] # paid[id] =>
                    /\ now >= locks[id].lockUntil
                    /\ paid[id] = 0 /\ paid'[id] = locks[id].amount
                    /\ lastCall'.op = "withdraw" /\ lastCall'.id = id]_vars

\* a lock withdrawn in full while another lock is still closed
C33_Witness ==
    /\ deployed = "LockerV1"
    /\ lastCall.op = "withdraw"
    /\ locks[lastCall.id].withdrawn = locks[lastCall.id].amount
    /\ lastCall.amount = locks[lastCall.id].amount
    /\ \E id \in LockIds : Locked(id) /\ now < locks[id].lockUntil

\* C32: withdrawable of a lock with cliff == 0 is 0 before lockUntil and
\* amount - withdrawn from lockUntil on; with cliff > 0 it is 0 up to cliff,
\* floor(amount * (now - cliff) / (lockUntil - cliff)) - withdrawn between
\* cliff and lockUntil, and amount - withdrawn from lockUntil on; withdrawn
\* never exceeds amount.
C32_CliffWithdrawable ==
    deployed = "Locker" =>
        \A id \in LockIds :
            LET info == locks[id]
                w == cliffWithdrawable(id)
                d == info.lockUntil - info.cliff
                e == now - info.cliff
            IN  Locked(id) =>
                    /\ info.withdrawn <= info.amount
                    /\ paid[id] = info.withdrawn
                    /\ ~w.panic
                    /\ (info.cliff = 0 /\ now < info.lockUntil) => w.value = 0
                    /\ (info.cliff > 0 /\ now <= info.cliff) => w.value = 0
                    /\ now >= info.lockUntil => w.value = info.amount - info.withdrawn
                    /\ (info.cliff > 0 /\ info.cliff < now /\ now < info.lockUntil) =>
                          \E q \in 0..info.amount :
                              /\ q * d <= info.amount * e
                              /\ info.amount * e < (q + 1) * d
                              /\ w.value = q - info.withdrawn

\* a part of a lock with a cliff withdrawn between cliff and lockUntil, and
\* more of it unlocked since
C32_Witness ==
    /\ deployed = "Locker"
    /\ \E id \in LockIds :
          /\ Locked(id)
          /\ locks[id].cliff > 0
          /\ locks[id].cliff < now /\ now < locks[id].lockUntil
          /\ locks[id].withdrawn > 0
          /\ cliffWithdrawable(id).value > 0

\* the token of a lock of the deployed legacy locker
LockTokenOf(id) ==
    IF deployed = "Liquidity" THEN locks[id].lpToken ELSE locks[id].token

\* the sum of amount over the locks first..last that u owns for token t and
\* that are still locked
RECURSIVE LockedSum(_, _, _, _)
LockedSum(u, t, first, last) ==
    IF first > last THEN 0
    ELSE (IF /\ first < nextLockId
             /\ locks[first].owner = u
             /\ LockTokenOf(first) = t
             /\ locks[first].isLocked
          THEN locks[first].amount ELSE 0)
         + LockedSum(u, t, first + 1, last)

\* unlock by the lock's owner and unlock by the contract's owner
UnlockOutcome(caller, id, tok) ==
    IF deployed = "Liquidity" THEN unlockLiquidity(caller, id, tok)
    ELSE unlockTokens(caller, id, tok)

EmergencyOutcome(caller, id, tok) ==
    IF deployed = "Liquidity" THEN liquidityEmergencyUnlock(caller, id, tok)
    ELSE emergencyUnlock(caller, id, tok)

\* the storage an outcome of a locker leaves is the storage as it is
LockerNoEffect(out) ==
    /\ out.nextLockId = nextLockId
    /\ out.locks = locks
    /\ out.ownerLocks = ownerLocks
    /\ out.ownerIndex = ownerIndex
    /\ out.lockedBalances = lockedBalances
    /\ out.pulled = 0 /\ out.paidOut = 0
    /\ out.events = <<>>

\* C38: lockedBalances[u][t] is the sum of amount over the locks u owns for
\* token t that are still locked; the amount of a lock leaves the contract
\* at most once: it has left exactly when isLocked is false, and every
\* unlock of a lock that is not locked fails without effect.
C38_LockedBalances ==
    deployed \in {"Legacy", "Liquidity"} =>
        /\ \A u \in Users, t \in Tokens :
              lockedBalances[u][t] = LockedSum(u, t, 0, LegacyMaxLocks - 1)
        /\ \A id \in LegacyIds :
              /\ id < nextLockId =>
                    paid[id] = IF locks[id].isLocked THEN 0 ELSE locks[id].amount
              /\ id >= nextLockId => paid[id] = 0
              /\ ~locks[id].isLocked =>
                    \A caller \in Users \cup {OWNER}, tok \in TransferResults :
                        /\ UnlockOutcome(caller, id, tok).status # "ok"
                        /\ LockerNoEffect(UnlockOutcome(caller, id, tok))
                        /\ EmergencyOutcome(caller, id, tok).status # "ok"
                        /\ LockerNoEffect(EmergencyOutcome(caller, id, tok))

\* two locks of one owner and one token, one of them unlocked by the owner
\* of the contract, the other still locked
C38_Witness ==
    /\ deployed \in {"Legacy", "Liquidity"}
    /\ lastCall.op = "emergencyUnlock"
    /\ nextLockId = 2
    /\ locks[0].owner = locks[1].owner
    /\ LockTokenOf(0) = LockTokenOf(1)
    /\ locks[0].isLocked # locks[1].isLocked
    /\ lockedBalances[locks[0].owner][LockTokenOf(0)] > 0

\* C39: no step moves a lock's tokens out of the contract before the lock's
\* unlockTime, and every lock accepted has its unlockTime between 1 day and
\* 10 years after its lockTime.
C39_NothingBeforeUnlockTime ==
    /\ [](deployed \in {"Legacy", "Liquidity"} =>
            \A id \in LegacyIds :
                id < nextLockId =>
                    /\ locks[id].unlockTime - locks[id].lockTime >= MIN_LOCK_DURATION
                    /\ locks[id].unlockTime - locks[id].lockTime <= MAX_LOCK_DURATION)
    /\ [][(deployed \in {"Legacy", "Liquidity"}) =>
            \A id \in LegacyIds :
                paid'[id] > paid[id] => (now >= locks[id].unlockTime)]_vars

\* what the schedule or lock id holds in all and has handed out
TotalOf(id) ==
    IF deployed \in {"Lin", "VF"} THEN schedules[id].totalAmount ELSE locks[id].amount

HandedOutOf(id) ==
    IF deployed \in {"Lin", "VF"} THEN schedules[id].released ELSE locks[id].withdrawn

\* C36: while a claim(id) / withdraw(id) waits for its transfer, a nested
\* claim(id) / withdraw(id) by anyone is refused; what the transaction has
\* paid for the id is at most what was claimable when it started; and
\* released / withdrawn never exceeds the total.
C36_ReentryMovesNothingMore ==
    /\ [](\A id \in Ids : HandedOutOf(id) <= TotalOf(id))
    /\ [](\A k \in 1..Len(stack) :
            /\ \A caller \in Users :
                  /\ BeforeTransfer(caller, stack[k].id).status # "ok"
                  /\ BeforeTransfer(caller, stack[k].id).amount = 0
            /\ \A j \in 1..Len(stack) : j # k => stack[j].id # stack[k].id
            /\ stack[k].amount = stack[k].entry
            /\ paid[stack[k].id] - stack[k].saved.paid[stack[k].id] = 0)
    /\ [][\A k \in 1..Len(stack) :
            LET id == stack[k].id
            IN  paid'[id] - stack[k].saved.paid[id] <= stack[k].entry]_vars

\* a claim / withdraw waits for its transfer, a second call for the same id
\* has been refused for having nothing to pay, and a nested call for
\* another id of the same recipient is waiting for its transfer too
C36_Witness ==
    /\ Len(stack) = 2
    /\ stack[1].caller = stack[2].caller
    /\ stack[1].amount > 0
    /\ BeforeTransfer(stack[1].caller, stack[1].id).status
          \in {"NothingToRelease", "Nothing to claim", "NothingToWithdraw"}

\* no run that was not cancelled is in flight
NoLiveRun == \A i \in 1..Len(runs) : runs[i].cancelled

\* C40: a cancelled run writes none of locks, error and loading when it
\* completes, and once no run that was not cancelled is in flight loading
\* returns to false, unless a new run is started first.
C40_CancelledRunsAndLoading ==
    /\ [][\A i \in 1..Len(runs) :
            (runs[i].cancelled /\ runs' = RemoveAt(runs, i)) =>
                UNCHANGED <<myLocks, error, loading>>]_vars
    /\ (NoLiveRun ~> (~loading \/ ~NoLiveRun))

====
